---- MODULE Spec2Model ----
(***************************************************************************)
(* Model of the DroneSimulator navigation core: NavigationGrid, Pathfinder *)
(* (A* search), WaypointNavigator, and the per-drone / fleet mode logic.   *)
(*                                                                         *)
(* Units.  World x and z coordinates are kept in HALF world units, so that *)
(* a cell centre (i + 0.5) * cellSize - worldWidth / 2 is the integer      *)
(* (2i + 1) * cellSize - worldWidth.  Altitudes (y) are whole world units. *)
(* Path costs are fixed-point numbers with CostScale units per world unit. *)
(* The flight model (DronePhysics, Drone, DroneManager) keeps positions,   *)
(* velocities and angles as fixed-point numbers with Unit units per world  *)
(* unit or degree, and converts at the calls of the pathfinder.            *)
(***************************************************************************)
EXTENDS Integers, Sequences, FiniteSets, TLC

VARIABLES
    navGrid,    \* the NavigationGrid of the session, search fields of its cells included
    lastOp,     \* the most recent call on the navigation core and what it returned
    search,     \* the findPath call in progress: its open set, closed set and query
    manager,    \* the DroneManager and its drones
    lastNKeyState,  \* lastNKeyState of main.js
    frames,     \* the number of frames animate has run
    calls       \* the number of calls made on the methods of the manager and its drones

vars == <<navGrid, lastOp, search, manager, lastNKeyState, frames, calls>>

\* the fleet
fleetVars == <<manager, lastNKeyState, frames, calls>>

\* ------------------------------------------------------------------------
\* Bounds of the model
\* ------------------------------------------------------------------------
CostScale == 100
MaxWaypoints == 2
Unit == 1000
MaxFrames == 5
MaxCalls == 4

\* ------------------------------------------------------------------------
\* Numbers
\* ------------------------------------------------------------------------
\* cell.gCost = Infinity
Infinity == 1000000000

\* the element of a singleton. Only({ e : name \in { value } }) is e with the
\* name bound to the value, as const name = value; e: a chain of bindings is
\* read from its last line up
Only(S) == CHOOSE result \in S : TRUE

Abs(a) == IF a < 0 THEN -a ELSE a
Max(a, b) == IF a > b THEN a ELSE b
Min(a, b) == IF a < b THEN a ELSE b

\* Infinity + x = Infinity
Plus(a, b) == IF a = Infinity \/ b = Infinity THEN Infinity ELSE a + b

RECURSIVE SqrtSearch(_, _, _)
SqrtSearch(n, lo, hi) ==
    IF lo >= hi THEN lo
    ELSE Only({
             IF mid * mid <= n THEN SqrtSearch(n, mid, hi)
             ELSE Only({
                      SqrtSearch(n, lo, below)
                    : below \in { mid - 1 } })
           : mid \in { (lo + hi + 1) \div 2 } })

\* Math.sqrt on fixed-point values: floor of the square root
Sqrt(n) == SqrtSearch(n, 0, Min(n, 46340))

\* Math.SQRT2, in cost units
SQRT2 == Sqrt(2 * CostScale * CostScale)

\* ------------------------------------------------------------------------
\* NavigationGrid
\* ------------------------------------------------------------------------
null == <<>>

\* scratch fields of a cell that no search has written yet
undefined == -1

CellsOf(cx, cz) == (0 .. cx - 1) \X (0 .. cz - 1)

\* new NavigationGrid(worldWidth, worldDepth, cellSize, groundLevel)
NavigationGrid(worldWidth, worldDepth, cellSize, groundLevel) ==
    LET cx == worldWidth \div cellSize
        cz == worldDepth \div cellSize
    IN  [ worldWidth  |-> worldWidth,
          worldDepth  |-> worldDepth,
          cellSize    |-> cellSize,
          groundLevel |-> groundLevel,
          gridCellsX  |-> cx,
          gridCellsZ  |-> cz,
          grid        |-> [ c \in CellsOf(cx, cz) |->
                              [ maxObstacleHeight |-> groundLevel,
                                isObstacle        |-> FALSE,
                                worldX            |-> (2 * c[1] + 1) * cellSize - worldWidth,
                                worldZ            |-> (2 * c[2] + 1) * cellSize - worldDepth,
                                gCost             |-> undefined,
                                hCost             |-> undefined,
                                fCost             |-> undefined,
                                parent            |-> null,
                                flyY              |-> undefined ] ] ]

Cells(ng) == DOMAIN ng.grid

\* worldToGridCoordinates that rounds to the nearest index instead of flooring
worldToGridCoordinates_Round(ng, worldX, worldZ) ==
    LET gridX == (worldX + ng.worldWidth + ng.cellSize) \div (2 * ng.cellSize)
        gridZ == (worldZ + ng.worldDepth + ng.cellSize) \div (2 * ng.cellSize)
    IN  IF gridX >= 0 /\ gridX < ng.gridCellsX /\ gridZ >= 0 /\ gridZ < ng.gridCellsZ
        THEN <<gridX, gridZ>>
        ELSE null

\* worldToGridCoordinates(worldX, worldZ): floor((world + width / 2) / cellSize)
worldToGridCoordinates(ng, worldX, worldZ) ==
    LET gridX == (worldX + ng.worldWidth) \div (2 * ng.cellSize)
        gridZ == (worldZ + ng.worldDepth) \div (2 * ng.cellSize)
    IN  IF gridX >= 0 /\ gridX < ng.gridCellsX /\ gridZ >= 0 /\ gridZ < ng.gridCellsZ
        THEN <<gridX, gridZ>>
        ELSE null

\* gridToWorldCoordinates(gridX, gridZ): the stored centre of the cell
gridToWorldCoordinates(ng, gridX, gridZ) ==
    IF gridX >= 0 /\ gridX < ng.gridCellsX /\ gridZ >= 0 /\ gridZ < ng.gridCellsZ
    THEN <<ng.grid[<<gridX, gridZ>>].worldX, ng.grid[<<gridX, gridZ>>].worldZ>>
    ELSE null

\* the reset loop at the head of populateFromObjects
ResetObstacles(ng) ==
    [ng EXCEPT !.grid = [ c \in Cells(ng) |->
        [ng.grid[c] EXCEPT !.isObstacle = FALSE,
                           !.maxObstacleHeight = ng.groundLevel] ]]

\* one iteration of the object loop of populateFromObjects; object is the
\* bounding box of the object: [minX, maxX, minZ, maxZ, topY]
MarkObject(ng, object) ==
    LET startGridCoords == worldToGridCoordinates(ng, object.minX, object.minZ)
        endGridCoords   == worldToGridCoordinates(ng, object.maxX, object.maxZ)
    IN  IF startGridCoords # null /\ endGridCoords # null
        THEN [ng EXCEPT !.grid = [ c \in Cells(ng) |->
                IF /\ c[1] >= startGridCoords[1] /\ c[1] <= endGridCoords[1]
                   /\ c[2] >= startGridCoords[2] /\ c[2] <= endGridCoords[2]
                THEN [ng.grid[c] EXCEPT
                        !.isObstacle = TRUE,
                        !.maxObstacleHeight = Max(ng.grid[c].maxObstacleHeight, object.topY)]
                ELSE ng.grid[c] ]]
        ELSE ng

RECURSIVE MarkObjects(_, _)
MarkObjects(ng, objects) ==
    IF objects = <<>> THEN ng
    ELSE MarkObjects(MarkObject(ng, Head(objects)), Tail(objects))

\* populateFromObjects that does not reset the grid first
populateFromObjects_NoReset(ng, collidableObjects) ==
    MarkObjects(ng, collidableObjects)

\* populateFromObjects that clears isObstacle and leaves maxObstacleHeight
\* as the populations before left it
populateFromObjects_KeepHeights(ng, collidableObjects) ==
    MarkObjects([ng EXCEPT !.grid = [ c \in Cells(ng) |->
                    [ng.grid[c] EXCEPT !.isObstacle = FALSE] ]],
                collidableObjects)

\* populateFromObjects(collidableObjects)
populateFromObjects(ng, collidableObjects) ==
    MarkObjects(ResetObstacles(ng), collidableObjects)

directions ==
    << <<-1, 0>>, <<1, 0>>, <<0, -1>>, <<0, 1>>,
       <<-1, -1>>, <<-1, 1>>, <<1, -1>>, <<1, 1>> >>

\* getNeighbors that looks in the four orthogonal directions only
getNeighbors_Orthogonal(ng, gridX, gridZ) ==
    LET next(d) == <<gridX + directions[d][1], gridZ + directions[d][2]>>
        ok(d) == /\ next(d)[1] >= 0 /\ next(d)[1] < ng.gridCellsX
                 /\ next(d)[2] >= 0 /\ next(d)[2] < ng.gridCellsZ
                 /\ ~ng.grid[next(d)].isObstacle
        F[d \in 0 .. 4] ==
            IF d = 0 THEN <<>>
            ELSE IF ok(d) THEN Append(F[d - 1], next(d)) ELSE F[d - 1]
    IN  F[4]

\* getNeighbors that leaves out a diagonal neighbour when the two orthogonal
\* cells between it and (gridX, gridZ) are both obstacles
getNeighbors_NoCornerCutting(ng, gridX, gridZ) ==
    LET next(d) == <<gridX + directions[d][1], gridZ + directions[d][2]>>
        cut(d) == /\ directions[d][1] # 0 /\ directions[d][2] # 0
                  /\ ng.grid[<<next(d)[1], gridZ>>].isObstacle
                  /\ ng.grid[<<gridX, next(d)[2]>>].isObstacle
        ok(d) == /\ next(d)[1] >= 0 /\ next(d)[1] < ng.gridCellsX
                 /\ next(d)[2] >= 0 /\ next(d)[2] < ng.gridCellsZ
                 /\ ~ng.grid[next(d)].isObstacle
                 /\ ~cut(d)
        F[d \in 0 .. Len(directions)] ==
            IF d = 0 THEN <<>>
            ELSE IF ok(d) THEN Append(F[d - 1], next(d)) ELSE F[d - 1]
    IN  F[Len(directions)]

\* getNeighbors(gridX, gridZ): the navigable neighbours, in direction order
getNeighbors(ng, gridX, gridZ) ==
    LET next(d) == <<gridX + directions[d][1], gridZ + directions[d][2]>>
        ok(d) == /\ next(d)[1] >= 0 /\ next(d)[1] < ng.gridCellsX
                 /\ next(d)[2] >= 0 /\ next(d)[2] < ng.gridCellsZ
                 /\ ~ng.grid[next(d)].isObstacle
        F[d \in 0 .. Len(directions)] ==
            IF d = 0 THEN <<>>
            ELSE IF ok(d) THEN Append(F[d - 1], next(d)) ELSE F[d - 1]
    IN  F[Len(directions)]

\* ------------------------------------------------------------------------
\* Pathfinder
\* ------------------------------------------------------------------------
\* new THREE.Vector3(x, y, z)
Vector3(x, y, z) == [x |-> x, y |-> y, z |-> z]

\* heuristic(cellA, flyYA, cellB_worldX, cellB_worldZ, flyYB): 3D Euclidean distance
heuristic(cellA, flyYA, cellB_worldX, cellB_worldZ, flyYB) ==
    LET dx == cellB_worldX - cellA.worldX
        dz == cellB_worldZ - cellA.worldZ
        dy == flyYB - flyYA
    IN  Sqrt(((dx * dx + dz * dz) \div 4 + dy * dy) * CostScale * CostScale)

\* a findPath that starts on the scratch values it finds on the cells
ResetSearchFields_Skip(ng) == ng

\* the per-search reset of the A* properties of every cell
ResetSearchFields(ng) ==
    [ng EXCEPT !.grid = [ c \in Cells(ng) |->
        [ng.grid[c] EXCEPT !.gCost = Infinity, !.hCost = Infinity,
                           !.fCost = Infinity, !.parent = null, !.flyY = 0] ]]

RECURSIVE InsertByFCost(_, _, _)
InsertByFCost(ng, sorted, node) ==
    IF sorted = <<>> THEN <<node>>
    ELSE IF ng.grid[Head(sorted)].fCost <= ng.grid[node].fCost
         THEN <<Head(sorted)>> \o InsertByFCost(ng, Tail(sorted), node)
         ELSE <<node>> \o sorted

RECURSIVE SortByFCost(_, _)
\* openSet.sort((a, b) => a.fCost - b.fCost): stable, ascending
SortByFCost(ng, openSet) ==
    IF openSet = <<>> THEN <<>>
    ELSE InsertByFCost(ng, SortByFCost(ng, SubSeq(openSet, 1, Len(openSet) - 1)),
                       openSet[Len(openSet)])

InOpenSet(openSet, node) == \E k \in 1 .. Len(openSet) : openSet[k] = node

RECURSIVE ParentChain(_, _)
ParentChain(ng, node) ==
    IF node = null THEN <<>>
    ELSE Append(ParentChain(ng, ng.grid[node].parent), node)

\* reconstructPath that stops at the node whose parent is null without adding it
reconstructPath_DropStart(endNode, ng, droneSafetyMargin, targetWaypointY) ==
    LET chain == Tail(ParentChain(ng, endNode))
    IN  [ k \in 1 .. Len(chain) |->
            Vector3(ng.grid[chain[k]].worldX,
                    Max(targetWaypointY, ng.grid[chain[k]].maxObstacleHeight + droneSafetyMargin),
                    ng.grid[chain[k]].worldZ) ]

\* reconstructPath(endNode, navGrid, droneSafetyMargin, targetWaypointY)
reconstructPath(endNode, ng, droneSafetyMargin, targetWaypointY) ==
    LET chain == ParentChain(ng, endNode)
    IN  [ k \in 1 .. Len(chain) |->
            Vector3(ng.grid[chain[k]].worldX,
                    Max(targetWaypointY, ng.grid[chain[k]].maxObstacleHeight + droneSafetyMargin),
                    ng.grid[chain[k]].worldZ) ]

\* VisitNeighbor that pushes every neighbour it visits on the open set
\* without looking whether it is there already
VisitNeighbor_PushAlways(st, q, currentNode, currentGridCoords, neighborCoord) ==
    IF neighborCoord \in st.closedSet THEN st
    ELSE
    LET neighborFlyY == Max(q.endWorldPos.y,
                            st.ng.grid[neighborCoord].maxObstacleHeight + q.droneSafetyMargin)
        ng1 == [st.ng EXCEPT !.grid[neighborCoord].flyY = neighborFlyY]
        neighborNode == ng1.grid[neighborCoord]
        current == ng1.grid[currentNode]
        dxNeighbor == Abs(neighborCoord[1] - currentGridCoords[1])
        dzNeighbor == Abs(neighborCoord[2] - currentGridCoords[2])
        isDiagonalMove == dxNeighbor = 1 /\ dzNeighbor = 1
        costToMove == IF isDiagonalMove THEN ng1.cellSize * SQRT2
                                        ELSE ng1.cellSize * CostScale
        altitudeChange == Abs(neighborFlyY - current.flyY)
        tentativeGCost == Plus(current.gCost,
                               costToMove +
                               (altitudeChange * q.altitudeChangePenalty * CostScale) \div 2)
        hCost == heuristic(neighborNode, neighborFlyY,
                           ng1.grid[q.endCell].worldX, ng1.grid[q.endCell].worldZ,
                           q.endCellFlyY)
        inOpen == InOpenSet(st.openSet, neighborCoord)
    IN  IF tentativeGCost < neighborNode.gCost
        THEN [st EXCEPT
                !.ng = [ng1 EXCEPT !.grid[neighborCoord].parent = currentNode,
                                   !.grid[neighborCoord].gCost = tentativeGCost,
                                   !.grid[neighborCoord].hCost = hCost,
                                   !.grid[neighborCoord].fCost = Plus(tentativeGCost, hCost)],
                !.openSet = Append(st.openSet, neighborCoord)]
        ELSE IF ~inOpen
        THEN [st EXCEPT
                !.ng = [ng1 EXCEPT !.grid[neighborCoord].hCost = hCost,
                                   !.grid[neighborCoord].fCost =
                                        Plus(neighborNode.gCost, hCost)],
                !.openSet = IF neighborNode.gCost = Infinity
                            THEN Append(st.openSet, neighborCoord)
                            ELSE st.openSet]
        ELSE [st EXCEPT !.ng = ng1, !.openSet = Append(st.openSet, neighborCoord)]

\* body of the neighbour loop of findPath, for one neighbour.
\* st: [ng, openSet, closedSet, done, path, extracted]; q: the query
VisitNeighbor(st, q, currentNode, currentGridCoords, neighborCoord) ==
    IF neighborCoord \in st.closedSet THEN st
    ELSE
    LET neighborFlyY == Max(q.endWorldPos.y,
                            st.ng.grid[neighborCoord].maxObstacleHeight + q.droneSafetyMargin)
        ng1 == [st.ng EXCEPT !.grid[neighborCoord].flyY = neighborFlyY]
        neighborNode == ng1.grid[neighborCoord]
        current == ng1.grid[currentNode]
        dxNeighbor == Abs(neighborCoord[1] - currentGridCoords[1])
        dzNeighbor == Abs(neighborCoord[2] - currentGridCoords[2])
        isDiagonalMove == dxNeighbor = 1 /\ dzNeighbor = 1
        costToMove == IF isDiagonalMove THEN ng1.cellSize * SQRT2
                                        ELSE ng1.cellSize * CostScale
        altitudeChange == Abs(neighborFlyY - current.flyY)
        tentativeGCost == Plus(current.gCost,
                               costToMove +
                               (altitudeChange * q.altitudeChangePenalty * CostScale) \div 2)
        hCost == heuristic(neighborNode, neighborFlyY,
                           ng1.grid[q.endCell].worldX, ng1.grid[q.endCell].worldZ,
                           q.endCellFlyY)
        inOpen == InOpenSet(st.openSet, neighborCoord)
    IN  IF tentativeGCost < neighborNode.gCost
        THEN [st EXCEPT
                !.ng = [ng1 EXCEPT !.grid[neighborCoord].parent = currentNode,
                                   !.grid[neighborCoord].gCost = tentativeGCost,
                                   !.grid[neighborCoord].hCost = hCost,
                                   !.grid[neighborCoord].fCost = Plus(tentativeGCost, hCost)],
                !.openSet = IF inOpen THEN st.openSet
                                      ELSE Append(st.openSet, neighborCoord)]
        ELSE IF ~inOpen
        THEN [st EXCEPT
                !.ng = [ng1 EXCEPT !.grid[neighborCoord].hCost = hCost,
                                   !.grid[neighborCoord].fCost =
                                        Plus(neighborNode.gCost, hCost)],
                !.openSet = IF neighborNode.gCost = Infinity
                            THEN Append(st.openSet, neighborCoord)
                            ELSE st.openSet]
        ELSE [st EXCEPT !.ng = ng1]

RECURSIVE VisitNeighbors(_, _, _, _, _)
VisitNeighbors(st, q, currentNode, currentGridCoords, neighborsGridCoords) ==
    IF neighborsGridCoords = <<>> THEN st
    ELSE VisitNeighbors(
            VisitNeighbor(st, q, currentNode, currentGridCoords, Head(neighborsGridCoords)),
            q, currentNode, currentGridCoords, Tail(neighborsGridCoords))

\* one iteration of the while loop of findPath (openSet is not empty)
SearchStep(st, q) ==
    LET sorted == SortByFCost(st.ng, st.openSet)
        currentNode == Head(sorted)
        st1 == [st EXCEPT !.openSet = Tail(sorted),
                          !.extracted = Append(st.extracted, currentNode)]
    IN  IF currentNode = q.endCell
        THEN [st1 EXCEPT !.done = TRUE,
                         !.path = reconstructPath(currentNode, st.ng,
                                                  q.droneSafetyMargin, q.endWorldPos.y)]
        ELSE LET currentGridCoords ==
                    worldToGridCoordinates(st.ng, st.ng.grid[currentNode].worldX,
                                           st.ng.grid[currentNode].worldZ)
                 st2 == [st1 EXCEPT !.closedSet = st.closedSet \cup {currentGridCoords}]
             IN  VisitNeighbors(st2, q, currentNode, currentGridCoords,
                                getNeighbors(st.ng, currentGridCoords[1], currentGridCoords[2]))

\* the loop test of findPath and, when it passes, one iteration
LoopIteration(st, q) ==
    IF st.openSet = <<>> THEN [st EXCEPT !.done = TRUE, !.path = null]
    ELSE SearchStep(st, q)

RECURSIVE RunSearch(_, _)
\* the while loop of findPath, to its return
RunSearch(st, q) ==
    IF st.done THEN st ELSE RunSearch(LoopIteration(st, q), q)

\* StartSearch that plans the altitude of the start cell from the height of
\* the destination, as it is done for every other cell
StartSearch_FlyFromEnd(ng, startCell, endCell, startWorldPos, endWorldPos, droneSafetyMargin, altitudeChangePenalty) ==
    LET ng0 == ResetSearchFields(ng)
        startFlyY == Max(endWorldPos.y,
                         ng0.grid[startCell].maxObstacleHeight + droneSafetyMargin)
        endCellFlyY == Max(endWorldPos.y,
                           ng0.grid[endCell].maxObstacleHeight + droneSafetyMargin)
        startH == heuristic(ng0.grid[startCell], startFlyY,
                            ng0.grid[endCell].worldX, ng0.grid[endCell].worldZ, endCellFlyY)
    IN  [ st |-> [ ng        |-> [ng0 EXCEPT !.grid[startCell].gCost = 0,
                                             !.grid[startCell].flyY = startFlyY,
                                             !.grid[startCell].hCost = startH,
                                             !.grid[startCell].fCost = startH],
                   openSet   |-> <<startCell>>,
                   closedSet |-> {},
                   done      |-> FALSE,
                   path      |-> null,
                   extracted |-> <<>> ],
          q  |-> [ endCell               |-> endCell,
                   endWorldPos           |-> endWorldPos,
                   droneSafetyMargin     |-> droneSafetyMargin,
                   altitudeChangePenalty |-> altitudeChangePenalty,
                   endCellFlyY           |-> endCellFlyY ] ]

\* steps 2-4 of findPath: the state of the search when the loop is entered
StartSearch(ng, startCell, endCell, startWorldPos, endWorldPos, droneSafetyMargin, altitudeChangePenalty) ==
    LET ng0 == ResetSearchFields(ng)
        startFlyY == Max(startWorldPos.y,
                         ng0.grid[startCell].maxObstacleHeight + droneSafetyMargin)
        endCellFlyY == Max(endWorldPos.y,
                           ng0.grid[endCell].maxObstacleHeight + droneSafetyMargin)
        startH == heuristic(ng0.grid[startCell], startFlyY,
                            ng0.grid[endCell].worldX, ng0.grid[endCell].worldZ, endCellFlyY)
    IN  [ st |-> [ ng        |-> [ng0 EXCEPT !.grid[startCell].gCost = 0,
                                             !.grid[startCell].flyY = startFlyY,
                                             !.grid[startCell].hCost = startH,
                                             !.grid[startCell].fCost = startH],
                   openSet   |-> <<startCell>>,
                   closedSet |-> {},
                   done      |-> FALSE,
                   path      |-> null,
                   extracted |-> <<>> ],
          q  |-> [ endCell               |-> endCell,
                   endWorldPos           |-> endWorldPos,
                   droneSafetyMargin     |-> droneSafetyMargin,
                   altitudeChangePenalty |-> altitudeChangePenalty,
                   endCellFlyY           |-> endCellFlyY ] ]

\* findPath without the test of the start and end cells for obstacles
findPath_NoObstacleCheck(ng, startWorldPos, endWorldPos, droneSafetyMargin, altitudeChangePenalty) ==
    LET startNodeCoords == worldToGridCoordinates(ng, startWorldPos.x, startWorldPos.z)
        endNodeCoords   == worldToGridCoordinates(ng, endWorldPos.x, endWorldPos.z)
    IN  IF startNodeCoords = null \/ endNodeCoords = null
        THEN [ng |-> ng, path |-> null, extracted |-> <<>>]
        ELSE LET s0 == StartSearch(ng, startNodeCoords, endNodeCoords, startWorldPos,
                                   endWorldPos, droneSafetyMargin, altitudeChangePenalty)
                 end == RunSearch(s0.st, s0.q)
             IN  [ng |-> end.ng, path |-> end.path, extracted |-> end.extracted]

\* Pathfinder.findPath(navGrid, startWorldPos, endWorldPos, droneSafetyMargin,
\* altitudeChangePenalty): the grid it leaves and the path (or null) it returns.
\* altitudeChangePenalty is given in halves (3 is the default 1.5).
findPath(ng, startWorldPos, endWorldPos, droneSafetyMargin, altitudeChangePenalty) ==
    LET startNodeCoords == worldToGridCoordinates(ng, startWorldPos.x, startWorldPos.z)
        endNodeCoords   == worldToGridCoordinates(ng, endWorldPos.x, endWorldPos.z)
    IN  IF startNodeCoords = null \/ endNodeCoords = null
        THEN [ng |-> ng, path |-> null, extracted |-> <<>>]
        ELSE IF ng.grid[startNodeCoords].isObstacle \/ ng.grid[endNodeCoords].isObstacle
        THEN [ng |-> ng, path |-> null, extracted |-> <<>>]
        ELSE LET s0 == StartSearch(ng, startNodeCoords, endNodeCoords, startWorldPos,
                                   endWorldPos, droneSafetyMargin, altitudeChangePenalty)
                 end == RunSearch(s0.st, s0.q)
             IN  [ng |-> end.ng, path |-> end.path, extracted |-> end.extracted]

\* ------------------------------------------------------------------------
\* WaypointNavigator
\* ------------------------------------------------------------------------
RECURSIVE PlanLegs_SkipFailed(_, _, _, _, _)
\* the for loop that goes on to the next waypoint when a leg has no path
PlanLegs_SkipFailed(acc, waypoints, i, droneSafetyMargin, altitudeChangePenalty) ==
    IF i > Len(waypoints) THEN [ng |-> acc.ng, path |-> acc.fullPath, legs |-> acc.legs]
    ELSE LET nextWaypoint == waypoints[i]
             found == findPath(acc.ng, acc.currentPosition, nextWaypoint,
                               droneSafetyMargin, altitudeChangePenalty)
             segmentPath == found.path
         IN  IF segmentPath = null
             THEN PlanLegs_SkipFailed([acc EXCEPT !.ng = found.ng,
                                                  !.legs = Append(acc.legs, null)],
                                      waypoints, i + 1, droneSafetyMargin,
                                      altitudeChangePenalty)
             ELSE PlanLegs_SkipFailed(
                        [ ng              |-> found.ng,
                          fullPath        |-> acc.fullPath \o Tail(segmentPath),
                          currentPosition |-> segmentPath[Len(segmentPath)],
                          legs            |-> Append(acc.legs, segmentPath) ],
                        waypoints, i + 1, droneSafetyMargin, altitudeChangePenalty)

RECURSIVE PlanLegs_NoSlice(_, _, _, _, _)
\* the for loop that appends every segment whole, its first point included
PlanLegs_NoSlice(acc, waypoints, i, droneSafetyMargin, altitudeChangePenalty) ==
    IF i > Len(waypoints) THEN [ng |-> acc.ng, path |-> acc.fullPath, legs |-> acc.legs]
    ELSE LET nextWaypoint == waypoints[i]
             found == findPath(acc.ng, acc.currentPosition, nextWaypoint,
                               droneSafetyMargin, altitudeChangePenalty)
             segmentPath == found.path
         IN  IF segmentPath = null
             THEN [ng |-> found.ng, path |-> null, legs |-> Append(acc.legs, null)]
             ELSE PlanLegs_NoSlice(
                        [ ng              |-> found.ng,
                          fullPath        |-> acc.fullPath \o segmentPath,
                          currentPosition |-> segmentPath[Len(segmentPath)],
                          legs            |-> Append(acc.legs, segmentPath) ],
                        waypoints, i + 1, droneSafetyMargin, altitudeChangePenalty)

RECURSIVE PlanLegs(_, _, _, _, _)
\* the for loop of generatePathThroughWaypoints from waypoint i on
\* acc: [ng, fullPath, currentPosition, legs]
PlanLegs(acc, waypoints, i, droneSafetyMargin, altitudeChangePenalty) ==
    IF i > Len(waypoints) THEN [ng |-> acc.ng, path |-> acc.fullPath, legs |-> acc.legs]
    ELSE LET nextWaypoint == waypoints[i]
             found == findPath(acc.ng, acc.currentPosition, nextWaypoint,
                                 droneSafetyMargin, altitudeChangePenalty)
             segmentPath == found.path
         IN  IF segmentPath = null
             THEN [ng |-> found.ng, path |-> null, legs |-> Append(acc.legs, null)]
             ELSE PlanLegs([ ng              |-> found.ng,
                             fullPath        |-> acc.fullPath \o Tail(segmentPath),
                             currentPosition |-> segmentPath[Len(segmentPath)],
                             legs            |-> Append(acc.legs, segmentPath) ],
                           waypoints, i + 1, droneSafetyMargin, altitudeChangePenalty)

\* generatePathThroughWaypoints that answers an empty waypoint list with null
generatePathThroughWaypoints_NullOnEmpty(ng, startPos, waypoints, droneSafetyMargin, altitudeChangePenalty) ==
    IF waypoints = null \/ Len(waypoints) = 0
    THEN [ng |-> ng, path |-> null, legs |-> <<>>]
    ELSE PlanLegs([ ng |-> ng, fullPath |-> <<startPos>>,
                    currentPosition |-> startPos, legs |-> <<>> ],
                  waypoints, 1, droneSafetyMargin, altitudeChangePenalty)

\* WaypointNavigator.generatePathThroughWaypoints(startPos, waypoints, ...):
\* the grid it leaves, the path (or null) it returns and the result of every
\* findPath call it made, in order
generatePathThroughWaypoints(ng, startPos, waypoints, droneSafetyMargin, altitudeChangePenalty) ==
    IF waypoints = null \/ Len(waypoints) = 0
    THEN [ng |-> ng, path |-> <<startPos>>, legs |-> <<>>]
    ELSE PlanLegs([ ng |-> ng, fullPath |-> <<startPos>>,
                    currentPosition |-> startPos, legs |-> <<>> ],
                  waypoints, 1, droneSafetyMargin, altitudeChangePenalty)

\* droneSafetyMargin = 1.0, altitudeChangePenalty = 1.5 (in halves)
DefaultSafetyMargin == 1
DefaultAltitudePenalty == 3

\* ------------------------------------------------------------------------
\* Flight quantities
\* ------------------------------------------------------------------------
\* Positions, velocities and accelerations of the flight model are fixed-point
\* numbers with Unit units per world unit (per second, per second squared);
\* angles have Unit units per degree; delta is in milliseconds.

\* a / b rounded towards zero (b > 0)
Trunc(a, b) == IF a >= 0 THEN a \div b ELSE -((-a) \div b)

\* v * (num / den)
Times(v, num, den) == Trunc(v * num, den)

\* v * delta
PerTick(v, delta) == Trunc(v * delta, 1000)

\* THREE.MathUtils.clamp
Clamp(v, lo, hi) == IF v < lo THEN lo ELSE IF v > hi THEN hi ELSE v

\* the % of JavaScript: the result has the sign of the dividend
Rem(a, b) == IF a >= 0 THEN a % b ELSE -((-a) % b)

\* 1000 * sin(d degrees) for d = 0 .. 90
SinTable ==
    <<    0,   17,   35,   52,   70,   87,  105,  122,  139,  156,
        174,  191,  208,  225,  242,  259,  276,  292,  309,  326,
        342,  358,  375,  391,  407,  423,  438,  454,  469,  485,
        500,  515,  530,  545,  559,  574,  588,  602,  616,  629,
        643,  656,  669,  682,  695,  707,  719,  731,  743,  755,
        766,  777,  788,  799,  809,  819,  829,  839,  848,  857,
        866,  875,  883,  891,  899,  906,  914,  921,  927,  934,
        940,  946,  951,  956,  961,  966,  970,  974,  978,  982,
        985,  988,  990,  993,  995,  996,  998,  999,  999, 1000,
       1000 >>

\* 1000 * Math.sin of d whole degrees
SinDeg(d) ==
    Only({
        IF m <= 90 THEN SinTable[m + 1]
        ELSE IF m <= 180 THEN SinTable[180 - m + 1]
        ELSE IF m <= 270 THEN -SinTable[m - 180 + 1]
        ELSE -SinTable[360 - m + 1]
      : m \in { d % 360 } })

\* 1000 * Math.cos of d whole degrees
CosDeg(d) == SinDeg(d + 90)

\* the whole degree nearest to an angle
Deg(rotation) == (rotation + Unit \div 2) \div Unit

\* the largest d in lo .. hi with tan(d) <= x / z, for x >= 0 and z >= 0
RECURSIVE AngleSearch(_, _, _, _)
AngleSearch(x, z, lo, hi) ==
    IF lo >= hi THEN lo
    ELSE Only({
             IF SinDeg(mid) * z <= CosDeg(mid) * x
             THEN AngleSearch(x, z, mid, hi)
             ELSE Only({
                      AngleSearch(x, z, lo, below)
                    : below \in { mid - 1 } })
           : mid \in { (lo + hi + 1) \div 2 } })

\* Math.atan2(x, z) in whole degrees, in -180 .. 180
atan2(x, z) ==
    IF x = 0 /\ z = 0 THEN 0
    ELSE IF x >= 0 /\ z >= 0 THEN AngleSearch(x, z, 0, 90)
    ELSE IF x >= 0 THEN 180 - AngleSearch(x, -z, 0, 90)
    ELSE IF z >= 0 THEN -AngleSearch(-x, z, 0, 90)
    ELSE AngleSearch(-x, -z, 0, 90) - 180

\* Vector3.length
Length(dx, dy, dz) == Only({
                          Sqrt(square)
                        : square \in { dx * dx + dy * dy + dz * dz } })

\* a point given in whole world units
Point(x, y, z) == Vector3(x * Unit, y * Unit, z * Unit)

\* a position of the flight model as the navigation grid takes it, and a
\* point of a path as the flight model takes it
ToGrid(p) == Vector3((2 * p.x) \div Unit, p.y \div Unit, (2 * p.z) \div Unit)
FromGrid(q) == Vector3((q.x * Unit) \div 2, q.y * Unit, (q.z * Unit) \div 2)

\* ------------------------------------------------------------------------
\* DronePhysics
\* ------------------------------------------------------------------------
LIFT_POWER == 6
MAX_TILT == 30
ROTATION_SPEED == 1
MOVEMENT_SPEED == 25
FORMATION_FOLLOW_SPEED == 10
GRAVITY == (98 * Unit) \div 10
autonomousTargetReachedThreshold == (15 * Unit) \div 10
FullTurn == 360 * Unit

\* new DronePhysics(initialPosition)
DronePhysics(initialPosition) ==
    [ altitude    |-> initialPosition.y,
      velocity    |-> Vector3(0, 0, 0),
      rotation    |-> 0,
      tilt        |-> [x |-> 0, z |-> 0],
      position    |-> initialPosition,
      inFormation |-> FALSE,
      crashed     |-> FALSE ]

\* _calculateLift(keys); hoverOscillation is what Math.sin(Date.now() / 500) * 3
\* + (Math.random() - 0.5) * 3 came to
_calculateLift(p, keys, hoverOscillation) ==
    IF "ArrowUp" \in keys \/ "Space" \in keys
    THEN Times(LIFT_POWER * Unit, 45, 10)
    ELSE IF "ArrowDown" \in keys \/ "ShiftLeft" \in keys \/ "ShiftRight" \in keys
    THEN -Times(LIFT_POWER * Unit, 45, 10)
    ELSE Only({ Only({
             IF Abs(distanceFromHover) > 2 * Unit
             THEN lift + Times(distanceFromHover, 1, 10)
             ELSE lift
           : lift \in { GRAVITY + hoverOscillation } })
           : distanceFromHover \in { p.altitude - p.position.y } })

\* _handleRotation(keys)
_handleRotation(p, keys) ==
    [p EXCEPT !.rotation =
        Rem(@ + (IF "q" \in keys THEN ROTATION_SPEED * Unit ELSE 0)
              - (IF "e" \in keys THEN ROTATION_SPEED * Unit ELSE 0) + FullTurn, FullTurn)]

\* reset()
reset(p) ==
    [p EXCEPT !.position = Point(0, 10, 0),
              !.velocity = Vector3(0, 0, 0),
              !.rotation = 0,
              !.tilt = [x |-> 0, z |-> 0],
              !.crashed = FALSE]

\* _handleMovement(delta, keys)
_handleMovement(p, delta, keys) ==
    Only({ Only({ Only({ Only({ Only({ Only({ Only({
        IF "r" \in keys THEN reset(p2) ELSE p2
      : p2 \in { IF "a" \in keys
                 THEN [p1 EXCEPT !.tilt.z = Max(@ - Unit, -MAX_TILT * Unit),
                                 !.velocity.x = @ + byCos,
                                 !.velocity.z = @ - bySin]
                 ELSE IF "d" \in keys
                 THEN [p1 EXCEPT !.tilt.z = Min(@ + Unit, MAX_TILT * Unit),
                                 !.velocity.x = @ - byCos,
                                 !.velocity.z = @ + bySin]
                 ELSE [p1 EXCEPT !.tilt.z = Times(@, 95, 100)] } })
      : p1 \in { IF "w" \in keys
                 THEN [p EXCEPT !.tilt.x = Min(@ + Unit, MAX_TILT * Unit),
                                !.velocity.z = @ + byCos,
                                !.velocity.x = @ + bySin]
                 ELSE IF "s" \in keys
                 THEN [p EXCEPT !.tilt.x = Max(@ - Unit, -MAX_TILT * Unit),
                                !.velocity.z = @ - byCos,
                                !.velocity.x = @ - bySin]
                 ELSE [p EXCEPT !.tilt.x = Times(@, 95, 100)] } })
      : bySin \in { Trunc(sin * push, 1000) } })
      : byCos \in { Trunc(cos * push, 1000) } })
      : push \in { PerTick(MOVEMENT_SPEED * Unit, delta) } })
      : sin \in { SinDeg(Deg(p.rotation)) } })
      : cos \in { CosDeg(Deg(p.rotation)) } })

\* _applyDrag(): DRAG_FACTOR = 0.95, VERTICAL_DRAG_FACTOR = 0.97
_applyDrag(p) ==
    [p EXCEPT !.velocity.x = Times(@, 95, 100),
              !.velocity.y = Times(@, 97, 100),
              !.velocity.z = Times(@, 95, 100)]

\* _updatePosition(delta)
_updatePosition(p, delta) ==
    [p EXCEPT !.position.x = @ + PerTick(p.velocity.x, delta),
              !.position.y = @ + PerTick(p.velocity.y, delta),
              !.position.z = @ + PerTick(p.velocity.z, delta)]

\* _handleGroundCollision()
_handleGroundCollision(p) ==
    IF p.position.y < Unit
    THEN [p EXCEPT !.position.y = Unit, !.velocity.y = 0]
    ELSE p

\* the yaw control of _steerTowardsPoint: the new heading
SteerYaw(p, dx, dz, distanceToTarget, delta) ==
    IF distanceToTarget > Unit \div 10
    THEN Only({ Only({ Only({ Only({ Only({ Only({ Only({
             Rem(p.rotation + change + FullTurn, FullTurn)
           : change \in { Trunc(Clamp(rotationDiff, -maxRotationChange, maxRotationChange)
                                    * delta * 50, 1000) } })
           : maxRotationChange \in { ROTATION_SPEED * 2 * Unit } })
           : rotationDiff \in { IF d1 < -180 * Unit THEN d1 + FullTurn ELSE d1 } })
           : d1 \in { IF d0 > 180 * Unit THEN d0 - FullTurn ELSE d0 } })
           : d0 \in { targetRotationDeg - p.rotation } })
           : targetRotationDeg \in { IF a < 0 THEN a + FullTurn ELSE a } })
           : a \in { atan2(dx, dz) * Unit } })
    ELSE p.rotation

\* the lift control of _steerTowardsPoint: the new vertical velocity
SteerLift(p, heightDifference, delta) ==
    Only({
        Clamp(vy, -LIFT_POWER * Unit, LIFT_POWER * Unit)
      : vy \in { IF Abs(heightDifference) > Unit \div 5
                 THEN p.velocity.y + Trunc(heightDifference * 5 * delta, 1000)
                 ELSE Times(p.velocity.y, 8, 10) } })

\* the movement control of _steerTowardsPoint: the new velocity in the plane
SteerPlane(p, dx, dz, distanceToTarget) ==
    Only({ Only({
        IF distanceToTarget > Unit \div 10
        THEN [x |-> Trunc(dx * length, distanceToTarget),
              z |-> Trunc(dz * length, distanceToTarget)]
        ELSE [x |-> Times(p.velocity.x, 9, 10), z |-> Times(p.velocity.z, 9, 10)]
      : length \in { IF distanceToTarget > autonomousTargetReachedThreshold \div 2
                     THEN IF distanceToTarget >= 2 * autonomousTargetReachedThreshold
                          THEN maxHorizontalSpeed
                          ELSE Trunc(maxHorizontalSpeed * distanceToTarget,
                                     2 * autonomousTargetReachedThreshold)
                     ELSE Times(maxHorizontalSpeed, 2, 10) } })
      : maxHorizontalSpeed \in { Times(MOVEMENT_SPEED * Unit, 3, 100) } })

\* the tilt of _steerTowardsPoint
SteerTilt(rotation, vx, vz) ==
    Only({ Only({ Only({ Only({
        [x |-> Clamp(Times(localVelocityZ, 5, 10), -MAX_TILT * Unit, MAX_TILT * Unit),
         z |-> Clamp(Times(-localVelocityX, 5, 10), -MAX_TILT * Unit, MAX_TILT * Unit)]
      : localVelocityX \in { Trunc(vx * cos + vz * sin, 1000) } })
      : localVelocityZ \in { Trunc(vz * cos - vx * sin, 1000) } })
      : sin \in { SinDeg(Deg(rotation)) } })
      : cos \in { CosDeg(Deg(rotation)) } })

\* _steerTowardsPoint(targetWorldPos, delta)
_steerTowardsPoint(p, targetWorldPos, delta) ==
    Only({ Only({ Only({ Only({ Only({ Only({ Only({
        [p EXCEPT !.rotation = rotation,
                  !.velocity = Vector3(v.x, vy, v.z),
                  !.tilt = SteerTilt(rotation, v.x, v.z)]
      : v \in { SteerPlane(p, dx, dz, distanceToTarget) } })
      : vy \in { SteerLift(p, dy, delta) } })
      : rotation \in { SteerYaw(p, dx, dz, distanceToTarget, delta) } })
      : distanceToTarget \in { Length(dx, dy, dz) } })
      : dz \in { targetWorldPos.z - p.position.z } })
      : dy \in { targetWorldPos.y - p.position.y } })
      : dx \in { targetWorldPos.x - p.position.x } })

\* the branch of update for a crashed drone
UpdateCrashed(p, delta) ==
    Only({ Only({ Only({
        [p3 EXCEPT !.altitude = p3.position.y, !.tilt = [x |-> 0, z |-> 0]]
      : p3 \in { _handleGroundCollision(p2) } })
      : p2 \in { _updatePosition(p1, delta) } })
      : p1 \in { [p EXCEPT !.velocity.y = @ - PerTick(GRAVITY, delta)] } })

\* the branch of update under manual control (or hover)
UpdateManual(p, delta, keys, hoverOscillation) ==
    Only({ Only({ Only({
        _handleMovement(turned, delta, keys)
      : turned \in { _handleRotation(lifted, keys) } })
      : lifted \in { [p EXCEPT !.velocity.y = @ + PerTick(lift - GRAVITY, delta)] } })
      : lift \in { _calculateLift(p, keys, hoverOscillation) } })

\* DronePhysics.update without the branch for a crashed drone
DronePhysics_update_NoCrashBranch(p, delta, keys, isFlying, autonomousTarget, hoverOscillation) ==
    IF ~isFlying THEN p
    ELSE Only({ Only({ Only({ Only({
             [p4 EXCEPT !.altitude = p4.position.y]
           : p4 \in { _handleGroundCollision(p3) } })
           : p3 \in { _updatePosition(p2, delta) } })
           : p2 \in { _applyDrag(p1) } })
           : p1 \in { IF autonomousTarget # null
                      THEN _steerTowardsPoint(p, autonomousTarget, delta)
                      ELSE UpdateManual(p, delta, keys, hoverOscillation) } })

\* DronePhysics.update(delta, keys, isFlying, autonomousTarget)
DronePhysics_update(p, delta, keys, isFlying, autonomousTarget, hoverOscillation) ==
    IF ~isFlying THEN p
    ELSE IF p.crashed THEN UpdateCrashed(p, delta)
    ELSE Only({ Only({ Only({ Only({
             [p4 EXCEPT !.altitude = p4.position.y]
           : p4 \in { _handleGroundCollision(p3) } })
           : p3 \in { _updatePosition(p2, delta) } })
           : p2 \in { _applyDrag(p1) } })
           : p1 \in { IF autonomousTarget # null
                      THEN _steerTowardsPoint(p, autonomousTarget, delta)
                      ELSE UpdateManual(p, delta, keys, hoverOscillation) } })

\* moveToFormationPosition(targetPosition, targetRotation, delta)
moveToFormationPosition(p, targetPosition, targetRotation, delta) ==
    Only({ Only({ Only({ Only({ Only({ Only({ Only({ Only({ Only({ Only({
        [p1 EXCEPT !.inFormation = TRUE,
                   !.rotation = rotation,
                   !.tilt = [x |-> Times(@.x, 9, 10), z |-> Times(@.z, 9, 10)],
                   !.altitude = p1.position.y]
      : rotation \in { IF Abs(normalizedRotDiff) > Unit \div 2
                       THEN Rem(p.rotation + Times(normalizedRotDiff, 1, 10) + FullTurn, FullTurn)
                       ELSE p.rotation } })
      : normalizedRotDiff \in { Rem(rotDiff + 180 * Unit, FullTurn) - 180 * Unit } })
      : rotDiff \in { targetRotation - p.rotation } })
      : p1 \in { IF distance > Unit \div 10
                 THEN [p EXCEPT !.position = Vector3(@.x + step.x, @.y + step.y, @.z + step.z),
                                !.velocity = step]
                 ELSE [p EXCEPT !.velocity = Vector3(Times(@.x, 8, 10), Times(@.y, 8, 10),
                                                     Times(@.z, 8, 10))] } })
      : step \in { Vector3(Trunc(dirX * moveSpeed, 1000), Trunc(dirY * moveSpeed, 1000),
                           Trunc(dirZ * moveSpeed, 1000)) } })
      : distance \in { Length(dirX, dirY, dirZ) } })
      : dirZ \in { targetPosition.z - p.position.z } })
      : dirY \in { targetPosition.y - p.position.y } })
      : dirX \in { targetPosition.x - p.position.x } })
      : moveSpeed \in { FORMATION_FOLLOW_SPEED * delta } })

\* exitFormation()
exitFormation(p) == [p EXCEPT !.inFormation = FALSE]

\* an axis-aligned box: [minX, maxX, minY, maxY, minZ, maxZ]
Box3(minX, maxX, minY, maxY, minZ, maxZ) ==
    [minX |-> minX, maxX |-> maxX, minY |-> minY, maxY |-> maxY,
     minZ |-> minZ, maxZ |-> maxZ]

\* Box3.intersectsBox
intersectsBox(a, b) ==
    ~ \/ a.maxX < b.minX \/ a.minX > b.maxX
      \/ a.maxY < b.minY \/ a.minY > b.maxY
      \/ a.maxZ < b.minZ \/ a.minZ > b.maxZ

\* checkCollision(collidableObjects, droneBoundingBox)
checkCollision(p, collidableObjects, droneBoundingBox) ==
    IF p.crashed THEN p
    ELSE IF \E k \in 1 .. Len(collidableObjects) :
                intersectsBox(droneBoundingBox, collidableObjects[k])
    THEN [p EXCEPT !.crashed = TRUE, !.velocity.x = 0, !.velocity.z = 0]
    ELSE p

\* ------------------------------------------------------------------------
\* Drone
\* ------------------------------------------------------------------------
\* new DroneRenderer(scene, options): the model is created at the origin of
\* the scene and stays there until the first renderer.update
DroneRenderer ==
    [ isActive |-> FALSE, position |-> Vector3(0, 0, 0), inScene |-> TRUE ]

\* new Drone(scene, camera, options, navigationGrid); pathSearches counts the
\* console lines "Calculating path from ..." the drone has written, and
\* lastSearchFailed tells whether the last of them was followed by the
\* warning "No path found to waypoint ..."
Drone(options) ==
    [ name                       |-> options.name,
      physics                    |-> DronePhysics(options.position),
      renderer                   |-> DroneRenderer,
      isFlying                   |-> FALSE,
      isAutonomous               |-> FALSE,
      waypoints                  |-> <<>>,
      currentWaypointIndex       |-> -1,
      currentPath                |-> null,
      currentTargetPathNodeIndex |-> -1,
      pathSearches               |-> 0,
      lastSearchFailed           |-> FALSE ]

\* droneBoundingBox.setFromObject(renderer.object): the box around the body,
\* arms, rotors, camera mount, indicator and label of the model, where the
\* renderer last put it
droneBoundingBox(d) ==
    Only({
        Box3(at.x - 2 * Unit, at.x + 2 * Unit,
             at.y - (35 * Unit) \div 100, at.y + (25 * Unit) \div 10,
             at.z - (165 * Unit) \div 100, at.z + (165 * Unit) \div 100)
      : at \in { d.renderer.position } })

\* renderer.update(physicsState)
render(d) == [d EXCEPT !.renderer.position = d.physics.position]

\* startFlying()
startFlying(d) == [d EXCEPT !.isFlying = TRUE]

\* a drone together with the navigation grid it searches
Pair(d, ng) == [d |-> d, ng |-> ng]

\* _calculatePathToCurrentWaypoint(); the array index of JavaScript counts from 0
_calculatePathToCurrentWaypoint(d, ng) ==
    IF d.currentWaypointIndex < 0 \/ d.currentWaypointIndex >= Len(d.waypoints)
    THEN Pair([d EXCEPT !.currentPath = null, !.currentTargetPathNodeIndex = -1], ng)
    ELSE Only({ Only({ Only({
             IF found.path # null /\ Len(found.path) > 0
             THEN Pair([d EXCEPT
                          !.currentPath = [k \in 1 .. Len(found.path) |->
                                              FromGrid(found.path[k])],
                          !.currentTargetPathNodeIndex = 0,
                          !.pathSearches = @ + 1,
                          !.lastSearchFailed = FALSE],
                       found.ng)
             ELSE Pair([d EXCEPT !.currentPath = null,
                                 !.currentTargetPathNodeIndex = -1,
                                 !.pathSearches = @ + 1,
                                 !.lastSearchFailed = TRUE],
                       found.ng)
           : found \in { findPath(ng, startPos, endPos, DefaultSafetyMargin, DefaultAltitudePenalty) } })
           : endPos \in { ToGrid(d.waypoints[d.currentWaypointIndex + 1]) } })
           : startPos \in { ToGrid(d.physics.position) } })

\* setWaypoints(waypointsArray)
setWaypoints(d, ng, waypointsArray) ==
    Only({
        IF d1.isAutonomous /\ Len(d1.waypoints) > 0
        THEN _calculatePathToCurrentWaypoint(d1, ng)
        ELSE Pair(d1, ng)
      : d1 \in { [d EXCEPT !.waypoints = waypointsArray,
                           !.currentWaypointIndex = 0,
                           !.currentPath = null,
                           !.currentTargetPathNodeIndex = -1] } })

\* toggleAutonomousMode that leaves the path and its index in place when the
\* mode is turned off
toggleAutonomousMode_KeepPath(d, ng) ==
    IF ~d.isAutonomous
    THEN Only({
             IF /\ Len(d1.waypoints) > 0
                /\ d1.currentWaypointIndex < Len(d1.waypoints)
                /\ d1.currentPath = null
             THEN _calculatePathToCurrentWaypoint(d1, ng)
             ELSE Pair(d1, ng)
           : d1 \in { [d EXCEPT !.isAutonomous = TRUE, !.physics = exitFormation(@)] } })
    ELSE Pair([d EXCEPT !.isAutonomous = FALSE], ng)

\* toggleAutonomousMode()
toggleAutonomousMode(d, ng) ==
    IF ~d.isAutonomous
    THEN Only({
             IF /\ Len(d1.waypoints) > 0
                /\ d1.currentWaypointIndex < Len(d1.waypoints)
                /\ d1.currentPath = null
             THEN _calculatePathToCurrentWaypoint(d1, ng)
             ELSE Pair(d1, ng)
           : d1 \in { [d EXCEPT !.isAutonomous = TRUE, !.physics = exitFormation(@)] } })
    ELSE Pair([d EXCEPT !.isAutonomous = FALSE,
                        !.currentPath = null,
                        !.currentTargetPathNodeIndex = -1], ng)

\* currentPosVec.distanceTo(targetPathNode)
distanceTo(a, b) == Length(a.x - b.x, a.y - b.y, a.z - b.z)

\* an arrival test that jumps over the next waypoint at the end of a path
CheckArrival_SkipWaypoint(d, targetPathNode) ==
    IF distanceTo(d.physics.position, targetPathNode) < autonomousTargetReachedThreshold
    THEN IF d.currentTargetPathNodeIndex + 1 >= Len(d.currentPath)
         THEN [d EXCEPT !.currentWaypointIndex = @ + 2,
                        !.currentPath = null,
                        !.currentTargetPathNodeIndex = -1,
                        !.isAutonomous = IF d.currentWaypointIndex + 2 >= Len(d.waypoints)
                                         THEN FALSE ELSE @]
         ELSE [d EXCEPT !.currentTargetPathNodeIndex = @ + 1]
    ELSE d

\* an arrival test that drops the path at its end and leaves the index of
\* the target node where it was
CheckArrival_KeepIndex(d, targetPathNode) ==
    IF distanceTo(d.physics.position, targetPathNode) < autonomousTargetReachedThreshold
    THEN IF d.currentTargetPathNodeIndex + 1 >= Len(d.currentPath)
         THEN [d EXCEPT !.currentWaypointIndex = @ + 1,
                        !.currentPath = null,
                        !.isAutonomous = IF d.currentWaypointIndex + 1 >= Len(d.waypoints)
                                         THEN FALSE ELSE @]
         ELSE [d EXCEPT !.currentTargetPathNodeIndex = @ + 1]
    ELSE d

\* the arrival test at the end of _updateAutonomousMovement
CheckArrival(d, targetPathNode) ==
    IF distanceTo(d.physics.position, targetPathNode) < autonomousTargetReachedThreshold
    THEN IF d.currentTargetPathNodeIndex + 1 >= Len(d.currentPath)
         THEN [d EXCEPT !.currentWaypointIndex = @ + 1,
                        !.currentPath = null,
                        !.currentTargetPathNodeIndex = -1,
                        !.isAutonomous = IF d.currentWaypointIndex + 1 >= Len(d.waypoints)
                                         THEN FALSE ELSE @]
         ELSE [d EXCEPT !.currentTargetPathNodeIndex = @ + 1]
    ELSE d

\* physics.update(delta, {}, isFlying, target) on the drone
Fly(d, delta, target, hoverOscillation) ==
    [d EXCEPT !.physics = DronePhysics_update(@, delta, {}, d.isFlying, target,
                                              hoverOscillation)]

\* _updateAutonomousMovement(delta)
_updateAutonomousMovement(d, ng, delta, hoverOscillation) ==
    IF \/ Len(d.waypoints) = 0
       \/ d.currentWaypointIndex < 0
       \/ d.currentWaypointIndex >= Len(d.waypoints)
    THEN Only({
             Pair(Fly(d1, delta, null, hoverOscillation), ng)
           : d1 \in { IF /\ d.isAutonomous /\ Len(d.waypoints) > 0
                         /\ d.currentWaypointIndex >= Len(d.waypoints)
                      THEN [d EXCEPT !.isAutonomous = FALSE]
                      ELSE d } })
    ELSE Only({ Only({
             IF d1.currentPath = null
             THEN Pair(Fly(d1, delta, null, hoverOscillation), planned.ng)
             ELSE Only({ Only({
                      Pair(CheckArrival(d2, targetPathNode), planned.ng)
                    : d2 \in { Fly(d1, delta, targetPathNode, hoverOscillation) } })
                    : targetPathNode \in { d1.currentPath[d1.currentTargetPathNodeIndex + 1] } })
           : d1 \in { planned.d } })
           : planned \in { IF d.currentPath = null \/ d.currentTargetPathNodeIndex < 0
                           THEN _calculatePathToCurrentWaypoint(d, ng)
                           ELSE Pair(d, ng) } })

\* Drone.update(delta, keys)
Drone_update(d, ng, delta, keys, hoverOscillation, collidableObjects) ==
    IF ~d.isFlying THEN Pair(d, ng)
    ELSE Only({ Only({ Only({
             Pair(render(d2), moved.ng)
           : d2 \in { IF Len(collidableObjects) > 0 /\ ~d1.physics.crashed
                      THEN [d1 EXCEPT !.physics = checkCollision(@, collidableObjects,
                                                                 droneBoundingBox(d1))]
                      ELSE d1 } })
           : d1 \in { moved.d } })
           : moved \in { IF d.isAutonomous
                         THEN _updateAutonomousMovement(d, ng, delta, hoverOscillation)
                         ELSE Pair([d EXCEPT !.physics = DronePhysics_update(@, delta, keys,
                                                            d.isFlying, null, hoverOscillation)],
                                   ng) } })

\* followFormationPosition(targetPosition, targetRotation, delta)
followFormationPosition(d, targetPosition, targetRotation, delta) ==
    IF ~d.isFlying THEN d
    ELSE Only({
             render(moved)
           : moved \in { [d EXCEPT !.physics = moveToFormationPosition(@, targetPosition,
                                                                      targetRotation, delta)] } })

\* ------------------------------------------------------------------------
\* DroneManager
\* ------------------------------------------------------------------------
\* new DroneManager(scene, camera, collidableObjects, navigationGrid); the
\* indices of JavaScript count from 0, drones[k + 1] is the drone of index k
DroneManager ==
    [ drones           |-> <<>>,
      activeDroneIndex |-> -1,
      formationMode    |-> FALSE,
      formationPattern |-> "v",
      formationSpacing |-> 5,
      lastFKeyState    |-> FALSE,
      lastPKeyState    |-> FALSE ]

\* setActiveDrone(index)
setActiveDrone(m, index) ==
    IF index < 0 \/ index >= Len(m.drones) \/ index = m.activeDroneIndex
    THEN m
    ELSE Only({ Only({
             [m EXCEPT !.activeDroneIndex = index,
                       !.drones = [deactivated EXCEPT
                                     ![index + 1].renderer.isActive = TRUE,
                                     ![index + 1].physics = exitFormation(@)]]
           : deactivated \in { IF old # -1 /\ old < Len(m.drones)
                               THEN [m.drones EXCEPT ![old + 1].renderer.isActive = FALSE]
                               ELSE m.drones } })
           : old \in { m.activeDroneIndex } })

\* addDrone(options)
addDrone(m, options) ==
    Only({
        IF Len(m1.drones) = 1 /\ m1.activeDroneIndex = -1
        THEN setActiveDrone(m1, 0)
        ELSE m1
      : m1 \in { [m EXCEPT !.drones = Append(@, Drone(options))] } })

\* drones.splice(index, 1)
splice(drones, index) ==
    [k \in 1 .. Len(drones) - 1 |-> IF k <= index THEN drones[k] ELSE drones[k + 1]]

\* removeDrone(index)
removeDrone(m, index) ==
    IF index < 0 \/ index >= Len(m.drones) THEN m
    ELSE Only({ Only({
             [m EXCEPT !.drones = drones,
                       !.activeDroneIndex =
                           IF m.activeDroneIndex = index
                           THEN IF Len(drones) > 0 THEN Min(index, Len(drones) - 1) ELSE -1
                           ELSE IF m.activeDroneIndex > index THEN @ - 1 ELSE @]
           : drones \in { splice(removed, index) } })
           : removed \in { [m.drones EXCEPT ![index + 1].renderer.inScene = FALSE] } })

\* setFormationMode(enabled)
setFormationMode(m, enabled) == [m EXCEPT !.formationMode = enabled]

\* setFormationPattern(pattern)
setFormationPattern(m, pattern) == [m EXCEPT !.formationPattern = pattern]

\* startAllDrones()
startAllDrones(m) ==
    [m EXCEPT !.drones = [k \in 1 .. Len(m.drones) |-> startFlying(m.drones[k])]]

\* Math.ceil(Math.sqrt(n))
CeilSqrt(n) == CHOOSE k \in 0 .. n : k * k >= n /\ (k = 0 \/ (k - 1) * (k - 1) < n)

\* the offset (xOffset, zOffset) of a formation turned by the leader's heading
Rotated(xOffset, zOffset, leaderRotation) ==
    Only({ Only({
        [x |-> Trunc(xOffset * cos - zOffset * sin, 1000),
         z |-> Trunc(xOffset * sin + zOffset * cos, 1000)]
      : sin \in { SinDeg(Deg(leaderRotation)) } })
      : cos \in { CosDeg(Deg(leaderRotation)) } })

\* an offset that puts every follower straight behind the leader, whatever
\* the pattern
FormationOffset_Line(pattern, spacing, index, count) ==
    [x |-> 0, z |-> -spacing * (index + 1) * Unit]

\* the offset of the follower that takes place number index of the pattern
\* among count followers
FormationOffset(pattern, spacing, index, count) ==
    IF pattern = "v"
    THEN Only({ Only({
             [x |-> side * spacing * row * Unit, z |-> -spacing * row * Unit]
           : row \in { index \div 2 + 1 } })
           : side \in { IF index % 2 = 0 THEN 1 ELSE -1 } })
    ELSE IF pattern = "line"
    THEN [x |-> 0, z |-> -spacing * (index + 1) * Unit]
    ELSE Only({ Only({ Only({
             [x |-> Trunc((2 * col - (squareSize - 1)) * spacing * Unit, 2),
              z |-> (-row * spacing - spacing) * Unit]
           : col \in { index % squareSize } })
           : row \in { index \div squareSize } })
           : squareSize \in { CeilSqrt(count) } })

\* _calculateFormationPositions()
_calculateFormationPositions(m) ==
    IF \/ ~m.formationMode \/ Len(m.drones) <= 1 \/ m.activeDroneIndex = -1
       \/ m.formationPattern \notin {"v", "line", "square"}
    THEN <<>>
    ELSE Only({ Only({
             [k \in 1 .. count |->
                 Only({ Only({
                     [index    |-> IF k - 1 < m.activeDroneIndex THEN k - 1 ELSE k,
                      position |-> Vector3(leader.position.x + turned.x,
                                           leader.position.y,
                                           leader.position.z + turned.z),
                      rotation |-> leader.rotation]
                   : turned \in { Rotated(offset.x, offset.z, leader.rotation) } })
                   : offset \in { FormationOffset(m.formationPattern, m.formationSpacing,
                                                  k - 1, count) } })]
           : count \in { Len(m.drones) - 1 } })
           : leader \in { m.drones[m.activeDroneIndex + 1].physics } })

\* the loop over the number keys at the head of update
SelectByNumberKey(m, keys) ==
    Only({
        IF pressed = {} THEN m
        ELSE Only({
                 setActiveDrone(m, index)
               : index \in { (CHOOSE i \in pressed : \A j \in pressed : i <= j) - 1 } })
      : pressed \in { { i \in 1 .. Min(9, Len(m.drones)) : ToString(i) \in keys } } })

\* the F key of update
ToggleFormationByKey(m, keys) ==
    Only({
        [m1 EXCEPT !.lastFKeyState = "f" \in keys]
      : m1 \in { IF "f" \in keys /\ ~m.lastFKeyState
                 THEN Only({
                          [m EXCEPT !.formationMode = on,
                                    !.drones = [k \in 1 .. Len(m.drones) |->
                                        IF ~on /\ k - 1 # m.activeDroneIndex
                                        THEN [m.drones[k] EXCEPT !.physics = exitFormation(@)]
                                        ELSE m.drones[k]]]
                        : on \in { ~m.formationMode } })
                 ELSE m } })

\* the P key of update
CyclePatternByKey(m, keys) ==
    Only({
        [m1 EXCEPT !.lastPKeyState = "p" \in keys]
      : m1 \in { IF "p" \in keys /\ ~m.lastPKeyState
                 THEN [m EXCEPT !.formationPattern =
                           IF @ = "v" THEN "line" ELSE IF @ = "line" THEN "square" ELSE "v"]
                 ELSE m } })

\* the loop of update over the formation positions
RECURSIVE FollowAll(_, _, _)
FollowAll(drones, formationPositions, delta) ==
    IF formationPositions = <<>> THEN drones
    ELSE Only({ Only({ Only({
             FollowAll(followed, rest, delta)
           : rest \in { Tail(formationPositions) } })
           : followed \in { [drones EXCEPT ![posData.index + 1] =
                                 followFormationPosition(@, posData.position, posData.rotation,
                                                         delta)] } })
           : posData \in { Head(formationPositions) } })

\* the loop of update over the drones that are not active, from index i on
RECURSIVE UpdateOthers(_, _, _, _, _, _)
UpdateOthers(m, ng, i, delta, hoverOscillation, collidableObjects) ==
    IF i >= Len(m.drones) THEN [m |-> m, ng |-> ng]
    ELSE Only({
             IF i = m.activeDroneIndex
             THEN UpdateOthers(m, ng, next, delta, hoverOscillation, collidableObjects)
             ELSE Only({ Only({ Only({ Only({
                      UpdateOthers(m1, ng1, next, delta, hoverOscillation,
                                   collidableObjects)
                    : ng1 \in { r.ng } })
                    : m1 \in { [m EXCEPT !.drones[next] = r.d] } })
                    : r \in { Drone_update(drone, ng, delta, {}, hoverOscillation,
                                           collidableObjects) } })
                    : drone \in { m.drones[next] } })
           : next \in { i + 1 } })

\* DroneManager.update(delta, keys)
DroneManager_update(m, ng, delta, keys, hoverOscillation, collidableObjects) ==
    IF Len(m.drones) = 0 THEN [m |-> m, ng |-> ng]
    ELSE Only({ Only({ Only({ Only({ Only({ Only({ Only({
             IF m2.formationMode /\ Len(m2.drones) > 1
             THEN Only({ Only({
                      [m |-> [m2 EXCEPT !.drones = drones], ng |-> ng1]
                    : drones \in { FollowAll(m2.drones, formationPositions, delta) } })
                    : formationPositions \in { _calculateFormationPositions(m2) } })
             ELSE UpdateOthers(m2, ng1, 0, delta, hoverOscillation,
                               collidableObjects)
           : ng1 \in { active.ng } })
           : m2 \in { IF hasActive
                      THEN [m1 EXCEPT !.drones[m1.activeDroneIndex + 1] = active.d]
                      ELSE m1 } })
           : active \in { IF hasActive
                          THEN Only({
                                   Drone_update(activeDrone, ng, delta, keys, hoverOscillation,
                                                collidableObjects)
                                 : activeDrone \in { m1.drones[m1.activeDroneIndex + 1] } })
                          ELSE [d |-> null, ng |-> ng] } })
           : hasActive \in { m1.activeDroneIndex >= 0 /\ m1.activeDroneIndex < Len(m1.drones) } })
           : m1 \in { CyclePatternByKey(toggled, keys) } })
           : toggled \in { ToggleFormationByKey(selected, keys) } })
           : selected \in { SelectByNumberKey(m, keys) } })

\* ------------------------------------------------------------------------
\* main.js
\* ------------------------------------------------------------------------
\* the mission of the N key, on the scale of the model's world
testWaypoints == << Point(-1, 10, 1), Point(1, 10, -1) >>

\* the N key of animate
ToggleAutonomousByKey(m, ng, keys, lastN) ==
    IF /\ "n" \in keys /\ ~lastN
       /\ m.activeDroneIndex >= 0 /\ m.activeDroneIndex < Len(m.drones)
    THEN Only({ Only({
             [m  |-> [m EXCEPT !.drones[m.activeDroneIndex + 1] = r.d],
              ng |-> r.ng]
           : r \in { IF ~activeDrone.isAutonomous
                     THEN Only({ Only({ Only({
                              toggleAutonomousMode(d1, ng1)
                            : ng1 \in { w.ng } })
                            : d1 \in { w.d } })
                            : w \in { setWaypoints(activeDrone, ng, testWaypoints) } })
                     ELSE toggleAutonomousMode(activeDrone, ng) } })
           : activeDrone \in { m.drones[m.activeDroneIndex + 1] } })
    ELSE [m |-> m, ng |-> ng]

\* animate(): one frame
animate(m, ng, lastN, delta, keys, hoverOscillation, collidableObjects) ==
    Only({ Only({ Only({
        DroneManager_update(m1, ng1, delta, keys, hoverOscillation,
                            collidableObjects)
      : ng1 \in { toggled.ng } })
      : m1 \in { toggled.m } })
      : toggled \in { ToggleAutonomousByKey(m, ng, keys, lastN) } })

\* no fleet: the navigation core on its own
NoFleet ==
    /\ manager = DroneManager
    /\ lastNKeyState = FALSE
    /\ frames = 0
    /\ calls = 0

\* ------------------------------------------------------------------------
\* The navigation core driven by its callers: populate, findPath, generatePath
\* ------------------------------------------------------------------------
\* the grid of the session: 3 x 3 cells of size 1, ground at 0
SessionGrid == NavigationGrid(3, 3, 1, 0)

Box(minX, maxX, minZ, maxZ, topY) ==
    [minX |-> minX, maxX |-> maxX, minZ |-> minZ, maxZ |-> maxZ, topY |-> topY]

\* the obstacle lists the environment may hand over (x, z in half units)
Scenes ==
    { <<>>,
      \* a wall: the whole column x = 1 of the 3 x 3 grid
      << Box(-1, 0, -3, 2, 4) >>,
      \* cells (1,0) and (0,1): only the diagonal leaves cell (0,0)
      << Box(-1, 0, -3, -2, 3), Box(-3, -2, -1, 0, 5) >>,
      \* two overlapping boxes of different heights and one reaching past the grid
      << Box(-3, -2, -1, 0, 5), Box(-3, 0, -1, 0, 2), Box(1, 4, 1, 2, 6) >> }

SeqsUpTo(S, n) == UNION { [1 .. k -> S] : k \in 0 .. n }

\* world positions handed to the pathfinder
QueryPoints ==
    { Vector3(-2, 1, -2), Vector3(2, 1, 2), Vector3(0, 6, -2), Vector3(-3, 2, 1),
      Vector3(4, 1, 0) }

StartPoints == { Vector3(-2, 1, -2), Vector3(-3, 2, 1) }
WaypointPool == { Vector3(2, 1, 2), Vector3(0, 6, -2) }

\* some cell of ng carries a finite cost or a parent written by a search
HasScratch(ng) ==
    \E c \in Cells(ng) :
        \/ ng.grid[c].parent # null
        \/ ng.grid[c].gCost \notin { undefined, Infinity }

\* the most recent call and what it returned; staleScratch tells whether the
\* grid carried scratch values of an earlier search when findPath was called
NoOp == [kind |-> "none", objects |-> <<>>, wasObstacle |-> {},
         startPos |-> null, endPos |-> null,
         waypoints |-> <<>>, path |-> null, legs |-> <<>>, extracted |-> <<>>,
         gridCoords |-> null, worldCoords |-> null, backCoords |-> null,
         staleScratch |-> FALSE]

Idle == [active |-> FALSE]

InitGrid ==
    /\ navGrid = SessionGrid
    /\ lastOp = NoOp
    /\ search = Idle
    /\ NoFleet

\* navigationGrid.populateFromObjects(collidableObjects)
Populate ==
    \E objects \in Scenes :
        /\ navGrid' = populateFromObjects(navGrid, objects)
        /\ lastOp' = [NoOp EXCEPT !.kind = "populate", !.objects = objects,
                                  !.wasObstacle = {c \in Cells(navGrid) :
                                                      navGrid.grid[c].isObstacle}]
        /\ UNCHANGED <<search, fleetVars>>

\* Pathfinder.findPath(navGrid, startWorldPos, endWorldPos)
FindPath ==
    \E startWorldPos \in QueryPoints, endWorldPos \in QueryPoints :
        LET r == findPath(navGrid, startWorldPos, endWorldPos,
                          DefaultSafetyMargin, DefaultAltitudePenalty)
        IN  /\ navGrid' = r.ng
            /\ lastOp' = [NoOp EXCEPT !.kind = "find", !.startPos = startWorldPos,
                                      !.endPos = endWorldPos, !.path = r.path,
                                      !.extracted = r.extracted,
                                      !.staleScratch = HasScratch(navGrid)]
            /\ UNCHANGED <<search, fleetVars>>

\* waypointNavigator.generatePathThroughWaypoints(startPos, waypoints)
GeneratePath ==
    \E startPos \in StartPoints, waypoints \in SeqsUpTo(WaypointPool, MaxWaypoints) :
        LET r == generatePathThroughWaypoints(navGrid, startPos, waypoints,
                                              DefaultSafetyMargin, DefaultAltitudePenalty)
        IN  /\ navGrid' = r.ng
            /\ lastOp' = [NoOp EXCEPT !.kind = "generate", !.startPos = startPos,
                                      !.waypoints = waypoints, !.path = r.path,
                                      !.legs = r.legs]
            /\ UNCHANGED <<search, fleetVars>>

\* the grid and the pathfinder
NextGrid == Populate \/ FindPath

SpecGrid == InitGrid /\ [][NextGrid]_vars

\* the grid and the waypoint navigator
NextNav == Populate \/ GeneratePath

SpecNav == InitGrid /\ [][NextNav]_vars

\* ------------------------------------------------------------------------
\* The coordinate conversions on their own
\* ------------------------------------------------------------------------
\* (worldWidth, worldDepth, cellSize, groundLevel); in the last three the world
\* size is no multiple of the cell size
ConversionGrids ==
    { NavigationGrid(3, 3, 1, 0), NavigationGrid(6, 4, 1, 0), NavigationGrid(5, 5, 2, 1),
      NavigationGrid(7, 3, 2, 0), NavigationGrid(8, 7, 3, 0) }

GridIndices == -1 .. 6
WorldCoordinates == -9 .. 9

InitConv ==
    /\ navGrid \in ConversionGrids
    /\ lastOp = NoOp
    /\ search = Idle
    /\ NoFleet

\* gridToWorldCoordinates(i, j), then worldToGridCoordinates of what it returned
RoundTrip ==
    \E i \in GridIndices, j \in GridIndices :
        LET world == gridToWorldCoordinates(navGrid, i, j)
        IN  /\ lastOp' = [NoOp EXCEPT
                            !.kind = "roundTrip",
                            !.gridCoords = <<i, j>>,
                            !.worldCoords = world,
                            !.backCoords = IF world = null THEN null
                                           ELSE worldToGridCoordinates(navGrid, world[1], world[2])]
            /\ UNCHANGED <<navGrid, search, fleetVars>>

\* worldToGridCoordinates(x, z)
Locate ==
    \E x \in WorldCoordinates, z \in WorldCoordinates :
        /\ lastOp' = [NoOp EXCEPT !.kind = "locate",
                                  !.worldCoords = <<x, z>>,
                                  !.gridCoords = worldToGridCoordinates(navGrid, x, z)]
        /\ UNCHANGED <<navGrid, search, fleetVars>>

NextConv == RoundTrip \/ Locate

SpecConv == InitConv /\ [][NextConv]_vars

\* ------------------------------------------------------------------------
\* One findPath call at a time, iteration by iteration, on an open 10 x 10 grid
\* ------------------------------------------------------------------------
OpenGrid == NavigationGrid(10, 10, 1, 0)

\* positions inside cell (0,0) and inside cell (9,9) of OpenGrid
CornerStarts == { Vector3(-10, 1, -10), Vector3(-9, 3, -9), Vector3(-9, 0, -10) }
CornerEnds == { Vector3(8, 1, 8), Vector3(9, 3, 9), Vector3(9, 0, 8), Vector3(8, 5, 9) }

InitDiag ==
    /\ navGrid = OpenGrid
    /\ lastOp = NoOp
    /\ search = Idle
    /\ NoFleet

\* findPath up to the loop: conversions, obstacle tests, reset, start node
BeginFind ==
    /\ ~search.active
    /\ \E startWorldPos \in CornerStarts, endWorldPos \in CornerEnds :
        LET startNodeCoords ==
                worldToGridCoordinates(navGrid, startWorldPos.x, startWorldPos.z)
            endNodeCoords ==
                worldToGridCoordinates(navGrid, endWorldPos.x, endWorldPos.z)
            refused == [NoOp EXCEPT !.kind = "find", !.startPos = startWorldPos,
                                    !.endPos = endWorldPos]
        IN  IF startNodeCoords = null \/ endNodeCoords = null
            THEN lastOp' = refused /\ UNCHANGED <<navGrid, search, fleetVars>>
            ELSE IF \/ navGrid.grid[startNodeCoords].isObstacle
                    \/ navGrid.grid[endNodeCoords].isObstacle
            THEN lastOp' = refused /\ UNCHANGED <<navGrid, search, fleetVars>>
            ELSE LET s0 == StartSearch(navGrid, startNodeCoords, endNodeCoords,
                                       startWorldPos, endWorldPos,
                                       DefaultSafetyMargin, DefaultAltitudePenalty)
                 IN  /\ navGrid' = s0.st.ng
                     /\ search' = [active |-> TRUE, st |-> s0.st, q |-> s0.q,
                                   startPos |-> startWorldPos, endPos |-> endWorldPos]
                     /\ lastOp' = NoOp
                     /\ UNCHANGED fleetVars

\* the loop test of findPath and one iteration, or its return
StepFind ==
    /\ search.active
    /\ LET st == LoopIteration(search.st, search.q)
       IN  /\ navGrid' = st.ng
           /\ IF st.done
              THEN /\ search' = Idle
                   /\ lastOp' = [NoOp EXCEPT !.kind = "find",
                                             !.startPos = search.startPos,
                                             !.endPos = search.endPos,
                                             !.path = st.path,
                                             !.extracted = st.extracted]
              ELSE /\ search' = [search EXCEPT !.st = st]
                   /\ UNCHANGED lastOp
           /\ UNCHANGED fleetVars

NextDiag == BeginFind \/ StepFind

SpecDiag == InitDiag /\ [][NextDiag]_vars

\* ------------------------------------------------------------------------
\* The fleet: the simulator after init() of main.js, the start button and
\* the frames of animate
\* ------------------------------------------------------------------------
\* the world of the fleet: 6 x 6 cells of size 2 around the origin
FleetGrid == NavigationGrid(12, 12, 2, 0)

\* Environment.createBuildings: one building, 12 high, behind the leader
Buildings == << Box3(-1, 1, 0, 12, -6, -4) >>

\* the footprint and top of an object, as populateFromObjects takes it
Footprint(o) == Box(2 * o.minX, 2 * o.maxX, 2 * o.minZ, 2 * o.maxZ, o.maxY)

\* new THREE.Box3().setFromObject(object)
Bounding(o) ==
    Box3(o.minX * Unit, o.maxX * Unit, o.minY * Unit, o.maxY * Unit,
         o.minZ * Unit, o.maxZ * Unit)

\* Environment.getCollidableObjects()
collidableObjects == [k \in 1 .. Len(Buildings) |-> Bounding(Buildings[k])]

\* the three addDrone calls of init()
InitialDrones ==
    << [position |-> Point(0, 10, 0),   name |-> "Leader Drone"],
       [position |-> Point(-5, 10, -5), name |-> "Follower 1"],
       [position |-> Point(5, 10, -5),  name |-> "Follower 2"] >>

\* what a frame reads from its environment: the keys that are down
\* (Controls.getKeyStates()), Math.min(0.1, clock.getDelta()) in milliseconds,
\* and what Math.sin(Date.now() / 500) * 3.0 + (Math.random() - 0.5) * 3.0
\* comes to in _calculateLift
FrameInput(keys, delta, hoverOscillation) ==
    [keys |-> keys, delta |-> delta, hoverOscillation |-> hoverOscillation]

FrameInputs ==
    { FrameInput({}, 100, 0), FrameInput({}, 100, 3 * Unit),
      FrameInput({"f"}, 100, 0), FrameInput({"p"}, 100, 0),
      FrameInput({"n"}, 100, 0), FrameInput({"2"}, 100, 0),
      FrameInput({"r"}, 100, 0), FrameInput({"ArrowUp"}, 100, 0) }

InitFleet ==
    /\ navGrid = populateFromObjects(FleetGrid,
                     [k \in 1 .. Len(Buildings) |-> Footprint(Buildings[k])])
    /\ lastOp = NoOp
    /\ search = Idle
    /\ manager = addDrone(addDrone(addDrone(DroneManager, InitialDrones[1]),
                                   InitialDrones[2]), InitialDrones[3])
    /\ lastNKeyState = FALSE
    /\ frames = 0
    /\ calls = 0

\* the click on the start button
StartButton ==
    /\ manager' = startAllDrones(manager)
    /\ UNCHANGED <<navGrid, lastOp, search, lastNKeyState, frames, calls>>

\* animate(): one frame of the simulation
Animate ==
    /\ frames < MaxFrames
    /\ \E in \in FrameInputs :
        \E r \in { animate(manager, navGrid, lastNKeyState, in.delta, in.keys,
                           in.hoverOscillation, collidableObjects) } :
            /\ manager' = r.m
            /\ navGrid' = r.ng
            /\ lastNKeyState' = ("n" \in in.keys)
            /\ frames' = frames + 1
            /\ UNCHANGED <<lastOp, search, calls>>

NextFleet == StartButton \/ Animate

SpecFleet == InitFleet /\ [][NextFleet]_vars

\* ------------------------------------------------------------------------
\* Arrival: the leader has been flown by hand to the centre of a cell and
\* still carries the velocity of that flight when setWaypoints and
\* toggleAutonomousMode hand it a path, whose first node is that centre
\* ------------------------------------------------------------------------
MaxTicks == 2

\* where the leader is: the centre of the cell of the world point (1, 1), at
\* the height of the waypoints
ArrivalPosition == Point(1, 10, 1)

\* the velocities the leader may carry; under the keys the speed in the
\* plane stays below MOVEMENT_SPEED * 0.1 * 0.95 / 0.05 = 47.5 units a second
\* and the vertical speed is whatever lift and gravity left
ArrivalVelocities ==
    { Vector3(vx * Unit, vy * Unit, vz * Unit) :
        vx \in { -30, -15, 0, 15, 30 }, vy \in { 0, 6 }, vz \in { -30, -15, 0, 15, 30 } }

\* the leader in flight at ArrivalPosition with the velocity v
FlownLeader(v) ==
    Only({
        [d EXCEPT !.isFlying = TRUE,
                  !.physics.velocity = v,
                  !.renderer.position = ArrivalPosition,
                  !.renderer.isActive = TRUE]
      : d \in { Drone([position |-> ArrivalPosition, name |-> InitialDrones[1].name]) } })

InitArrive ==
    \E v \in ArrivalVelocities :
        \E planned \in { toggleAutonomousMode(
                              setWaypoints(FlownLeader(v), populateFromObjects(FleetGrid,
                                  [k \in 1 .. Len(Buildings) |-> Footprint(Buildings[k])]),
                                  testWaypoints).d,
                              populateFromObjects(FleetGrid,
                                  [k \in 1 .. Len(Buildings) |-> Footprint(Buildings[k])])) } :
            /\ navGrid = planned.ng
            /\ lastOp = NoOp
            /\ search = Idle
            /\ manager = [startAllDrones(addDrone(addDrone(addDrone(DroneManager,
                              InitialDrones[1]), InitialDrones[2]), InitialDrones[3]))
                             EXCEPT !.drones[1] = planned.d]
            /\ lastNKeyState = FALSE
            /\ frames = 0
            /\ calls = 0

\* animate(): one frame of the simulation
Tick ==
    /\ frames < MaxTicks
    /\ \E in \in FrameInputs :
        \E r \in { animate(manager, navGrid, lastNKeyState, in.delta, in.keys,
                           in.hoverOscillation, collidableObjects) } :
            /\ manager' = r.m
            /\ navGrid' = r.ng
            /\ lastNKeyState' = ("n" \in in.keys)
            /\ frames' = frames + 1
            /\ UNCHANGED <<lastOp, search, calls>>

NextArrive == Tick

SpecArrive == InitArrive /\ [][NextArrive]_vars

\* ------------------------------------------------------------------------
\* The fleet driven through the methods of DroneManager and Drone, from the
\* state after init() of main.js and the click on the start button
\* ------------------------------------------------------------------------
\* the frames of update between the calls: no key down, or the F key
ApiFrames == { FrameInput({}, 100, 0), FrameInput({"f"}, 100, 0) }

\* what addDrone is called with
AddedDrone == [position |-> Point(5, 10, 5), name |-> "Drone 4"]

\* the waypoint lists setWaypoints is called with
ApiWaypoints == { testWaypoints }

\* the call that was made last
Called(kind) == [NoOp EXCEPT !.kind = kind]

InitApi ==
    /\ navGrid = populateFromObjects(FleetGrid,
                     [k \in 1 .. Len(Buildings) |-> Footprint(Buildings[k])])
    /\ lastOp = NoOp
    /\ search = Idle
    /\ manager = startAllDrones(addDrone(addDrone(addDrone(DroneManager,
                     InitialDrones[1]), InitialDrones[2]), InitialDrones[3]))
    /\ lastNKeyState = FALSE
    /\ frames = 0
    /\ calls = 0

\* droneManager.update(delta, keys)
Update ==
    /\ calls < MaxCalls
    /\ \E in \in ApiFrames :
        \E r \in { DroneManager_update(manager, navGrid, in.delta, in.keys,
                                       in.hoverOscillation, collidableObjects) } :
            /\ manager' = r.m
            /\ navGrid' = r.ng
            /\ lastOp' = Called("update")
            /\ calls' = calls + 1
            /\ UNCHANGED <<search, lastNKeyState, frames>>

\* droneManager.addDrone(options), while the fleet is smaller than init() made it
AddDrone ==
    /\ calls < MaxCalls
    /\ Len(manager.drones) < Len(InitialDrones)
    /\ manager' = addDrone(manager, AddedDrone)
    /\ lastOp' = Called("addDrone")
    /\ calls' = calls + 1
    /\ UNCHANGED <<navGrid, search, lastNKeyState, frames>>

\* droneManager.removeDrone(index)
RemoveDrone ==
    /\ calls < MaxCalls
    /\ \E index \in 0 .. Len(manager.drones) - 1 :
        /\ manager' = removeDrone(manager, index)
        /\ lastOp' = Called("removeDrone")
        /\ calls' = calls + 1
        /\ UNCHANGED <<navGrid, search, lastNKeyState, frames>>

\* droneManager.setActiveDrone(index) with the index of another drone
SetActiveDrone ==
    /\ calls < MaxCalls
    /\ \E index \in 0 .. Len(manager.drones) - 1 :
        /\ index # manager.activeDroneIndex
        /\ manager' = setActiveDrone(manager, index)
        /\ lastOp' = Called("setActiveDrone")
        /\ calls' = calls + 1
        /\ UNCHANGED <<navGrid, search, lastNKeyState, frames>>

\* droneManager.setFormationMode(enabled): formation mode switched over
SetFormationMode ==
    /\ calls < MaxCalls
    /\ manager' = setFormationMode(manager, ~manager.formationMode)
    /\ lastOp' = Called("setFormationMode")
    /\ calls' = calls + 1
    /\ UNCHANGED <<navGrid, search, lastNKeyState, frames>>

\* droneManager.getActiveDrone().setWaypoints(waypointsArray)
SetWaypoints ==
    /\ calls < MaxCalls
    /\ manager.activeDroneIndex >= 0
    /\ \E waypointsArray \in ApiWaypoints :
        \E r \in { setWaypoints(manager.drones[manager.activeDroneIndex + 1], navGrid,
                                waypointsArray) } :
            /\ manager' = [manager EXCEPT !.drones[manager.activeDroneIndex + 1] = r.d]
            /\ navGrid' = r.ng
            /\ lastOp' = Called("setWaypoints")
            /\ calls' = calls + 1
            /\ UNCHANGED <<search, lastNKeyState, frames>>

\* droneManager.getActiveDrone().toggleAutonomousMode()
ToggleAutonomousMode ==
    /\ calls < MaxCalls
    /\ manager.activeDroneIndex >= 0
    /\ \E r \in { toggleAutonomousMode(manager.drones[manager.activeDroneIndex + 1],
                                       navGrid) } :
        /\ manager' = [manager EXCEPT !.drones[manager.activeDroneIndex + 1] = r.d]
        /\ navGrid' = r.ng
        /\ lastOp' = Called("toggleAutonomousMode")
        /\ calls' = calls + 1
        /\ UNCHANGED <<search, lastNKeyState, frames>>

NextApi ==
    \/ Update \/ AddDrone \/ RemoveDrone \/ SetActiveDrone \/ SetFormationMode
    \/ SetWaypoints \/ ToggleAutonomousMode

SpecApi == InitApi /\ [][NextApi]_vars

\* ------------------------------------------------------------------------
\* Geometry used to state the properties
\* ------------------------------------------------------------------------
IsObstacle(ng, c) == ng.grid[c].isObstacle

\* the world point (x, z in half units) lies outside the area covered by cells
OutsideGrid(ng, p) ==
    \/ p.x < -ng.worldWidth \/ p.x >= 2 * ng.cellSize * ng.gridCellsX - ng.worldWidth
    \/ p.z < -ng.worldDepth \/ p.z >= 2 * ng.cellSize * ng.gridCellsZ - ng.worldDepth

\* the cell whose square contains the world point
CellAt(ng, p) ==
    CHOOSE c \in Cells(ng) :
        /\ ng.grid[c].worldX - ng.cellSize <= p.x /\ p.x < ng.grid[c].worldX + ng.cellSize
        /\ ng.grid[c].worldZ - ng.cellSize <= p.z /\ p.z < ng.grid[c].worldZ + ng.cellSize

Blocked(ng, p) == ~OutsideGrid(ng, p) /\ IsObstacle(ng, CellAt(ng, p))

Usable(ng, p) == ~OutsideGrid(ng, p) /\ ~IsObstacle(ng, CellAt(ng, p))

Adjacent(c, d) == c # d /\ Abs(c[1] - d[1]) <= 1 /\ Abs(c[2] - d[2]) <= 1

RECURSIVE Grow(_, _)
\* the free cells reachable from the cells of S by 8-neighbour moves
Grow(ng, S) ==
    LET T == S \cup { d \in Cells(ng) : ~IsObstacle(ng, d) /\ \E c \in S : Adjacent(c, d) }
    IN  IF T = S THEN S ELSE Grow(ng, T)

Range(seq) == { seq[k] : k \in 1 .. Len(seq) }

\* ------------------------------------------------------------------------
\* Properties
\* ------------------------------------------------------------------------
\* C1: findPath returns null whenever the start or the end world point lies
\* outside the grid, or the start cell or the end cell is an obstacle.
C1_BadEndpointGivesNoPath ==
    lastOp.kind = "find" =>
        ( ( \/ OutsideGrid(navGrid, lastOp.startPos) \/ OutsideGrid(navGrid, lastOp.endPos)
            \/ Blocked(navGrid, lastOp.startPos) \/ Blocked(navGrid, lastOp.endPos) )
          => lastOp.path = null )

\* a search from a free cell to an obstacle cell was refused
C1_Witness ==
    /\ lastOp.kind = "find"
    /\ Usable(navGrid, lastOp.startPos)
    /\ Blocked(navGrid, lastOp.endPos)
    /\ lastOp.path = null

\* C2: between usable endpoints findPath returns a path exactly when the end
\* cell is reachable from the start cell by 8-neighbour moves through free
\* cells; a path is returned when the goal is extracted, and null is returned
\* only once every reachable cell has been extracted.
C2_PathIffReachable ==
    ( /\ lastOp.kind = "find"
      /\ Usable(navGrid, lastOp.startPos) /\ Usable(navGrid, lastOp.endPos) ) =>
        LET startCell == CellAt(navGrid, lastOp.startPos)
            endCell   == CellAt(navGrid, lastOp.endPos)
            reach     == Grow(navGrid, {startCell})
        IN  /\ (lastOp.path # null) <=> (endCell \in reach)
            /\ lastOp.path # null =>
                    /\ lastOp.extracted # <<>>
                    /\ lastOp.extracted[Len(lastOp.extracted)] = endCell
            /\ lastOp.path = null =>
                    /\ endCell \notin Range(lastOp.extracted)
                    /\ Range(lastOp.extracted) = reach

\* a search between usable cells ran until the frontier was empty
C2_Witness ==
    /\ lastOp.kind = "find"
    /\ Usable(navGrid, lastOp.startPos) /\ Usable(navGrid, lastOp.endPos)
    /\ lastOp.path = null
    /\ Len(lastOp.extracted) > 1

\* C3: a returned path starts at the centre of the start cell, ends at the
\* centre of the end cell, moves between distinct adjacent cells, touches no
\* obstacle cell and visits no cell twice.
C3_PathWellFormed ==
    (lastOp.kind = "find" /\ lastOp.path # null) =>
        LET path == lastOp.path
            startCell == CellAt(navGrid, lastOp.startPos)
            endCell   == CellAt(navGrid, lastOp.endPos)
            cellOf(k) == CellAt(navGrid, path[k])
            centred(k, c) == /\ path[k].x = navGrid.grid[c].worldX
                             /\ path[k].z = navGrid.grid[c].worldZ
        IN  /\ Len(path) >= 1
            /\ centred(1, startCell)
            /\ centred(Len(path), endCell)
            /\ \A k \in 1 .. Len(path) :
                    /\ ~OutsideGrid(navGrid, path[k])
                    /\ centred(k, cellOf(k))
                    /\ ~IsObstacle(navGrid, cellOf(k))
            /\ \A k \in 1 .. Len(path) - 1 : Adjacent(cellOf(k), cellOf(k + 1))
            /\ \A k, m \in 1 .. Len(path) : k # m => cellOf(k) # cellOf(m)
            /\ startCell = endCell => Len(path) = 1

\* a path of at least three points was returned for an off-centre start
C3_Witness ==
    /\ lastOp.kind = "find"
    /\ lastOp.path # null
    /\ Len(lastOp.path) >= 3
    /\ lastOp.startPos.x # lastOp.path[1].x

\* C5: for every in-bounds index pair, gridToWorldCoordinates followed by
\* worldToGridCoordinates yields the pair again.
C5_RoundTrip ==
    ( /\ lastOp.kind = "roundTrip"
      /\ lastOp.gridCoords[1] >= 0
      /\ lastOp.gridCoords[1] < navGrid.worldWidth \div navGrid.cellSize
      /\ lastOp.gridCoords[2] >= 0
      /\ lastOp.gridCoords[2] < navGrid.worldDepth \div navGrid.cellSize ) =>
        /\ lastOp.worldCoords # null
        /\ lastOp.backCoords = lastOp.gridCoords

\* the last cell of a grid whose world width is no multiple of the cell size
C5_Witness ==
    /\ lastOp.kind = "roundTrip"
    /\ navGrid.worldWidth % navGrid.cellSize # 0
    /\ lastOp.gridCoords = <<navGrid.gridCellsX - 1, navGrid.gridCellsZ - 1>>
    /\ lastOp.backCoords = lastOp.gridCoords

Occupancy(ng) ==
    [ c \in Cells(ng) |-> <<ng.grid[c].isObstacle, ng.grid[c].maxObstacleHeight>> ]

\* C6: after populateFromObjects(L) the occupancy and heights are those of a
\* newly constructed grid populated once with L, whatever was populated
\* before, and populating with L again changes nothing.
C6_PopulateIdempotent ==
    lastOp.kind = "populate" =>
        /\ Occupancy(navGrid) =
                Occupancy(MarkObjects(NavigationGrid(navGrid.worldWidth, navGrid.worldDepth,
                                                     navGrid.cellSize, navGrid.groundLevel),
                                      lastOp.objects))
        /\ Occupancy(populateFromObjects(navGrid, lastOp.objects)) = Occupancy(navGrid)

\* a non-empty list was populated over a grid holding other obstacles
C6_Witness ==
    /\ lastOp.kind = "populate"
    /\ lastOp.objects # <<>>
    /\ \E c \in lastOp.wasObstacle : ~navGrid.grid[c].isObstacle
    /\ \E c \in Cells(navGrid) : navGrid.grid[c].isObstacle

\* C4: on the open 10 x 10 grid with cellSize 1 a search from cell (0,0) to
\* cell (9,9) returns exactly 10 points, the centres of cells (k,k), k = 0..9.
C4_DiagonalStaircase ==
    ( /\ lastOp.kind = "find"
      /\ navGrid.gridCellsX = 10 /\ navGrid.gridCellsZ = 10 /\ navGrid.cellSize = 1
      /\ \A c \in Cells(navGrid) : ~IsObstacle(navGrid, c)
      /\ ~OutsideGrid(navGrid, lastOp.startPos) /\ ~OutsideGrid(navGrid, lastOp.endPos)
      /\ CellAt(navGrid, lastOp.startPos) = <<0, 0>>
      /\ CellAt(navGrid, lastOp.endPos) = <<9, 9>> ) =>
        /\ lastOp.path # null
        /\ Len(lastOp.path) = 10
        /\ \A k \in 1 .. 10 :
                /\ lastOp.path[k].x = navGrid.grid[<<k - 1, k - 1>>].worldX
                /\ lastOp.path[k].z = navGrid.grid[<<k - 1, k - 1>>].worldZ

\* a corner-to-corner search between different altitudes has returned
C4_Witness ==
    /\ lastOp.kind = "find"
    /\ navGrid.gridCellsX = 10
    /\ lastOp.path # null
    /\ lastOp.startPos.y # lastOp.endPos.y
    /\ Len(lastOp.extracted) = 10

\* C7: generatePathThroughWaypoints with an empty waypoint list returns the
\* one-point path <<startPos>>, makes no findPath call and leaves the grid as
\* it was.
C7_EmptyMission ==
    [][ (lastOp'.kind = "generate" /\ lastOp'.waypoints = <<>>) =>
            /\ lastOp'.path = <<lastOp'.startPos>>
            /\ lastOp'.legs = <<>>
            /\ navGrid' = navGrid ]_vars

\* an empty mission was answered on a grid that holds obstacles
C7_Witness ==
    /\ lastOp.kind = "generate"
    /\ lastOp.waypoints = <<>>
    /\ lastOp.path = <<lastOp.startPos>>
    /\ \E c \in Cells(navGrid) : IsObstacle(navGrid, c)

RECURSIVE LegsUntilFailure(_, _, _, _)
\* the searches of a mission, leg after leg, up to and including the first
\* one that finds no path
LegsUntilFailure(ng, position, waypoints, i) ==
    IF i > Len(waypoints) THEN <<>>
    ELSE LET leg == findPath(ng, position, waypoints[i],
                             DefaultSafetyMargin, DefaultAltitudePenalty).path
         IN  IF leg = null THEN <<null>>
             ELSE <<leg>> \o LegsUntilFailure(ng, leg[Len(leg)], waypoints, i + 1)

\* C8: over a non-empty waypoint list generatePathThroughWaypoints returns
\* null exactly when some leg finds no path; it stops at the first such leg,
\* however many legs succeeded before, and otherwise plans every waypoint.
C8_AbortOnFailedLeg ==
    (lastOp.kind = "generate" /\ lastOp.waypoints # <<>>) =>
        /\ lastOp.legs = LegsUntilFailure(navGrid, lastOp.startPos, lastOp.waypoints, 1)
        /\ (lastOp.path = null) <=> (\E k \in 1 .. Len(lastOp.legs) : lastOp.legs[k] = null)
        /\ lastOp.path # null => Len(lastOp.legs) = Len(lastOp.waypoints)

\* the second leg failed after the first had succeeded
C8_Witness ==
    /\ lastOp.kind = "generate"
    /\ Len(lastOp.legs) = 2
    /\ lastOp.legs[1] # null
    /\ lastOp.legs[2] = null
    /\ lastOp.path = null

RECURSIVE TailsFrom(_, _)
\* every leg from the i-th on without its first point, concatenated
TailsFrom(legs, i) ==
    IF i > Len(legs) THEN <<>> ELSE Tail(legs[i]) \o TailsFrom(legs, i + 1)

StaysCrashed(k) ==
    /\ k <= Len(manager'.drones)
    /\ manager.drones[k].physics.crashed
    /\ manager'.drones[k].physics.crashed

\* over the step, drone number k got no lift and no steering: its vertical
\* velocity did not grow (or the ground stopped its fall), and its horizontal
\* velocity and its heading are what they were
Undriven(k) ==
    LET before == manager.drones[k].physics
        after  == manager'.drones[k].physics
    IN  /\ \/ after.velocity.y <= before.velocity.y
           \/ after.velocity.y = 0 /\ after.position.y = Unit
        /\ after.velocity.x = before.velocity.x
        /\ after.velocity.z = before.velocity.z
        /\ after.rotation = before.rotation

\* C10: once a drone's crashed flag is set, no later frame in any mode (manual,
\* autonomous, or driven as a formation follower) gives it lift or steering:
\* as long as the flag stays set, its vertical velocity only decreases under
\* gravity and nothing drives it towards a target.
C10_CrashedNotDriven ==
    [][ \A k \in 1 .. Len(manager.drones) : StaysCrashed(k) => Undriven(k) ]_vars

\* in the step, update drives drone number k as a formation follower
DrivenAsFollower(k) ==
    /\ manager'.formationMode
    /\ Len(manager'.drones) > 1
    /\ k - 1 # manager'.activeDroneIndex
    /\ frames' = frames + 1

\* a crashed drone gets no lift and no steering in the frames that update it
\* as the active drone or as a drone outside formation mode, in manual and in
\* autonomous mode
C10_UndrivenOutsideFormation ==
    [][ \A k \in 1 .. Len(manager.drones) :
            StaysCrashed(k) /\ ~DrivenAsFollower(k) => Undriven(k) ]_vars

\* a crashed drone that flies and has been driven as a formation follower
C10_Witness ==
    \E k \in 1 .. Len(manager.drones) :
        /\ manager.drones[k].physics.crashed
        /\ manager.drones[k].isFlying
        /\ manager.drones[k].physics.inFormation
        /\ manager.formationMode
        /\ k - 1 # manager.activeDroneIndex

\* C11: the crashed flag is sticky. No frame, whatever it does (the physics of
\* a tick, the N key that assigns waypoints and toggles autonomous mode, the F
\* and P keys of the formation, a number key that changes the active drone,
\* the R key), clears the crashed flag of a drone: update leaves a crashed
\* drone before it reads the keys, so that no frame invokes reset on it.
C11_CrashedIsSticky ==
    [][ \A k \in 1 .. Len(manager.drones) :
            manager.drones[k].physics.crashed =>
                /\ k <= Len(manager'.drones)
                /\ manager'.drones[k].physics.crashed ]_vars

\* a drone that was made the active drone by a number key, is crashed, and was
\* given waypoints and toggled to autonomous mode
C11_Witness ==
    \E k \in 2 .. Len(manager.drones) :
        /\ manager.drones[k].physics.crashed
        /\ k - 1 = manager.activeDroneIndex
        /\ manager.drones[k].isAutonomous
        /\ Len(manager.drones[k].waypoints) > 0

\* ------------------------------------------------------------------------
\* Autonomous mode and the waypoint queue
\* ------------------------------------------------------------------------
\* the drone has a waypoint that it has not yet reached
HasPendingWaypoint(d) ==
    /\ Len(d.waypoints) > 0
    /\ d.currentWaypointIndex >= 0
    /\ d.currentWaypointIndex < Len(d.waypoints)

\* C12: a drone is in autonomous mode only with a waypoint queue that is not
\* empty: toggleAutonomousMode called with an empty queue, or with every
\* waypoint consumed, does not leave the drone in autonomous mode.
C12_AutonomousNeedsWaypoints ==
    \A k \in 1 .. Len(manager.drones) :
        manager.drones[k].isAutonomous => HasPendingWaypoint(manager.drones[k])

\* a drone that setWaypoints was never called on is in autonomous mode, and
\* update has run on the fleet since
C12_Witness ==
    /\ lastOp.kind = "update"
    /\ \E k \in 1 .. Len(manager.drones) :
        /\ manager.drones[k].isAutonomous
        /\ manager.drones[k].isFlying
        /\ manager.drones[k].waypoints = <<>>

\* ------------------------------------------------------------------------
\* The leader and the formation
\* ------------------------------------------------------------------------
\* C13: in every state of the fleet, whatever addDrone, removeDrone,
\* setActiveDrone, formation toggles and frames led to it, the active drone
\* (the leader) is not in formation: its inFormation flag is false.
C13_LeaderNotInFormation ==
    (manager.activeDroneIndex >= 0 /\ manager.activeDroneIndex < Len(manager.drones))
        => ~manager.drones[manager.activeDroneIndex + 1].physics.inFormation

\* removeDrone took the leader away and the follower that took its index, and
\* so became the leader, still has its inFormation flag
C13_Witness ==
    /\ lastOp.kind = "removeDrone"
    /\ manager.activeDroneIndex >= 0
    /\ manager.activeDroneIndex < Len(manager.drones)
    /\ manager.drones[manager.activeDroneIndex + 1].physics.inFormation
    /\ manager.drones[manager.activeDroneIndex + 1].name # "Leader Drone"

\* removeDrone apart, the active drone is never in formation: as long as no
\* drone has been removed, the leader's inFormation flag is false
C13_LeaderNotInFormationUnlessRemoved ==
    (\A k \in 1 .. Len(InitialDrones) :
        k <= Len(manager.drones) /\ manager.drones[k].name = InitialDrones[k].name)
        => C13_LeaderNotInFormation

\* C14: after a path computation of an autonomous drone has failed, a frame
\* in which nobody toggles the autonomous mode or assigns waypoints (the N
\* key is not newly pressed) starts no further path computation for it
C14_NoRetryAfterFailure ==
    [][ \A k \in 1 .. Len(manager.drones) :
          ( /\ manager.drones[k].isAutonomous
            /\ manager.drones[k].lastSearchFailed
            /\ frames' = frames + 1
            /\ ~(lastNKeyState' /\ ~lastNKeyState)
            /\ k <= Len(manager'.drones) )
          => manager'.drones[k].pathSearches = manager.drones[k].pathSearches ]_vars

\* an autonomous drone that has started a second path computation after a
\* failed one, and failed again
C14_Witness ==
    \E k \in 1 .. Len(manager.drones) :
        /\ manager.drones[k].isAutonomous
        /\ manager.drones[k].lastSearchFailed
        /\ manager.drones[k].pathSearches >= 2

\* the path node the drone d is heading for lies exactly where d is
AtTargetNode(d) ==
    /\ d.currentPath # null
    /\ d.currentTargetPathNodeIndex >= 0
    /\ d.currentTargetPathNodeIndex < Len(d.currentPath)
    /\ d.currentPath[d.currentTargetPathNodeIndex + 1].x = d.physics.position.x
    /\ d.currentPath[d.currentTargetPathNodeIndex + 1].y = d.physics.position.y
    /\ d.currentPath[d.currentTargetPathNodeIndex + 1].z = d.physics.position.z

\* the arrival test passed between d and after: the node index advanced, or
\* the path ended and the drone went on to its next waypoint
Arrived(d, after) ==
    \/ after.currentTargetPathNodeIndex = d.currentTargetPathNodeIndex + 1
    \/ after.currentWaypointIndex = d.currentWaypointIndex + 1

\* C15: a frame that ticks an autonomous, flying, non-crashed active drone
\* whose current path node is exactly at its position advances the drone's
\* path-node index, whatever velocity the drone carries
C15_ArrivesAtOwnPosition ==
    [][ \A k \in 1 .. Len(manager.drones) :
          ( /\ k - 1 = manager.activeDroneIndex
            /\ manager'.activeDroneIndex = manager.activeDroneIndex
            /\ manager.drones[k].isAutonomous
            /\ manager.drones[k].isFlying
            /\ ~manager.drones[k].physics.crashed
            /\ AtTargetNode(manager.drones[k])
            /\ frames' = frames + 1
            /\ ~(lastNKeyState' /\ ~lastNKeyState) )
          => Arrived(manager.drones[k], manager'.drones[k]) ]_vars

\* after a frame, the leader that started on its path node with a velocity
\* of 15 units a second along x and z is still heading for that node
C15_Witness ==
    /\ frames = 1
    /\ manager.activeDroneIndex = 0
    /\ manager.drones[1].isAutonomous
    /\ manager.drones[1].currentTargetPathNodeIndex = 0
    /\ manager.drones[1].currentPath[1] = ArrivalPosition
    /\ manager.drones[1].physics.position.x > ArrivalPosition.x + Unit
    /\ manager.drones[1].physics.position.z > ArrivalPosition.z + Unit

\* C15 for the velocities the arrival test allows for: with a speed in the
\* plane of zero the drone on its path node arrives in the same tick
C15_ArrivesWhenSlow ==
    [][ \A k \in 1 .. Len(manager.drones) :
          ( /\ k - 1 = manager.activeDroneIndex
            /\ manager'.activeDroneIndex = manager.activeDroneIndex
            /\ manager.drones[k].isAutonomous
            /\ manager.drones[k].isFlying
            /\ ~manager.drones[k].physics.crashed
            /\ AtTargetNode(manager.drones[k])
            /\ manager.drones[k].physics.velocity.x = 0
            /\ manager.drones[k].physics.velocity.z = 0
            /\ frames' = frames + 1
            /\ ~(lastNKeyState' /\ ~lastNKeyState) )
          => Arrived(manager.drones[k], manager'.drones[k]) ]_vars

\* the fleet order without the leader: the index of the k-th follower
\* (k = 0, 1, 2, ...) of the manager m
FollowerIndex(m, k) == IF k < m.activeDroneIndex THEN k ELSE k + 1

\* the targets of the V formation of the manager m are those of the rule:
\* the k-th follower in row k \div 2 + 1, spacing * row to the side (plus for
\* even k, minus for odd k) and spacing * row behind, in the frame of the
\* leader's heading and at the leader's height
VTargetsByRule(m) ==
    \A k \in 0 .. Len(m.drones) - 2 :
        \E row \in { k \div 2 + 1 } :
        \E lateral \in { IF k % 2 = 0 THEN m.formationSpacing * row * Unit
                                      ELSE -(m.formationSpacing * row * Unit) } :
        \E turned \in { Rotated(lateral, -(m.formationSpacing * row * Unit),
                                 m.drones[m.activeDroneIndex + 1].physics.rotation) } :
        \E target \in { _calculateFormationPositions(m)[k + 1] } :
            /\ target.index = FollowerIndex(m, k)
            /\ target.position.x = m.drones[m.activeDroneIndex + 1].physics.position.x + turned.x
            /\ target.position.y = m.drones[m.activeDroneIndex + 1].physics.position.y
            /\ target.position.z = m.drones[m.activeDroneIndex + 1].physics.position.z + turned.z

\* with two followers and a leader of heading 0 the two targets are one
\* spacing behind the leader and one spacing to its either side
VTargetsMirrored(m) ==
    ( Len(m.drones) = 3 /\ m.drones[m.activeDroneIndex + 1].physics.rotation = 0 )
    => \E leader \in { m.drones[m.activeDroneIndex + 1].physics.position } :
       \E targets \in { _calculateFormationPositions(m) } :
           /\ Len(targets) = 2
           /\ targets[1].position.x - leader.x = m.formationSpacing * Unit
           /\ targets[2].position.x - leader.x = -(m.formationSpacing * Unit)
           /\ targets[1].position.z - leader.z = -(m.formationSpacing * Unit)
           /\ targets[2].position.z = targets[1].position.z
           /\ targets[1].position.y = leader.y /\ targets[2].position.y = leader.y

\* the manager in V formation with a leader and at least one follower
InVFormation(m) ==
    /\ m.formationMode /\ m.formationPattern = "v"
    /\ Len(m.drones) > 1
    /\ m.activeDroneIndex >= 0 /\ m.activeDroneIndex < Len(m.drones)

Overlaps(ng, object, c) ==
    /\ (object.minX + ng.worldWidth) \div (2 * ng.cellSize) <= c[1]
    /\ c[1] <= (object.maxX + ng.worldWidth) \div (2 * ng.cellSize)
    /\ (object.minZ + ng.worldDepth) \div (2 * ng.cellSize) <= c[2]
    /\ c[2] <= (object.maxZ + ng.worldDepth) \div (2 * ng.cellSize)

\* the top heights of the footprints of objects over the cell c, and the ground
TopsOver(ng, objects, c) ==
    { ng.groundLevel } \cup
    { objects[k].topY : k \in { i \in 1 .. Len(objects) : Overlaps(ng, objects[i], c) } }

\* C17: after populateFromObjects a cell is an obstacle exactly when some
\* footprint overlaps it, and its maxObstacleHeight is the greatest top over
\* it - also for a footprint that reaches beyond the edge of the grid
C17_MarksEveryOverlappedCell ==
    lastOp.kind = "populate" =>
        \A c \in Cells(navGrid) :
            /\ navGrid.grid[c].isObstacle
                  <=> \E k \in 1 .. Len(lastOp.objects) : Overlaps(navGrid, lastOp.objects[k], c)
            /\ \A top \in TopsOver(navGrid, lastOp.objects, c) :
                  top <= navGrid.grid[c].maxObstacleHeight
            /\ navGrid.grid[c].maxObstacleHeight \in TopsOver(navGrid, lastOp.objects, c)

\* a footprint of the populated scene reaches past the grid from a cell of
\* the grid, and that cell is free
C17_Witness ==
    /\ lastOp.kind = "populate"
    /\ \E k \in 1 .. Len(lastOp.objects) :
          /\ worldToGridCoordinates(navGrid, lastOp.objects[k].minX,
                                    lastOp.objects[k].minZ) # null
          /\ worldToGridCoordinates(navGrid, lastOp.objects[k].maxX,
                                    lastOp.objects[k].maxZ) = null
          /\ ~navGrid.grid[worldToGridCoordinates(navGrid, lastOp.objects[k].minX,
                                                  lastOp.objects[k].minZ)].isObstacle

\* C17 for the footprints that lie inside the grid with both corners
C17_MarksCellsOfInnerFootprints ==
    ( /\ lastOp.kind = "populate"
      /\ \A k \in 1 .. Len(lastOp.objects) :
            /\ worldToGridCoordinates(navGrid, lastOp.objects[k].minX,
                                      lastOp.objects[k].minZ) # null
            /\ worldToGridCoordinates(navGrid, lastOp.objects[k].maxX,
                                      lastOp.objects[k].maxZ) # null )
    => C17_MarksEveryOverlappedCell

\* C18: getNeighbors(i, j) returns, each once, exactly the cells among the 8
\* cells next to (i, j), orthogonally or diagonally, that lie in the grid and
\* are no obstacles: never (i, j) itself, and a free diagonal cell also when
\* both orthogonal cells between it and (i, j) are obstacles
C18_NeighborsAreFreeAdjacentCells ==
    \A c \in Cells(navGrid) :
        /\ Range(getNeighbors(navGrid, c[1], c[2]))
              = { d \in Cells(navGrid) : Adjacent(c, d) /\ ~IsObstacle(navGrid, d) }
        /\ Cardinality(Range(getNeighbors(navGrid, c[1], c[2])))
              = Len(getNeighbors(navGrid, c[1], c[2]))

\* a search has left the corner cell (0, 0), whose two orthogonal neighbours
\* are obstacles, through its only neighbour, the diagonal cell (1, 1)
C18_Witness ==
    /\ lastOp.kind = "find"
    /\ lastOp.path # null
    /\ Len(lastOp.path) > 1
    /\ Usable(navGrid, lastOp.startPos)
    /\ CellAt(navGrid, lastOp.startPos) = <<0, 0>>
    /\ IsObstacle(navGrid, <<1, 0>>) /\ IsObstacle(navGrid, <<0, 1>>)
    /\ getNeighbors(navGrid, 0, 0) = << <<1, 1>> >>

\* the altitude planned over the cell c for a flight at the height y
PlannedAltitude(ng, c, y) == Max(y, ng.grid[c].maxObstacleHeight + DefaultSafetyMargin)

\* C19 as the specification has it: after a search the flyY of every cell
\* the search expanded, the start cell included, is the greater of the
\* destination's height and the cell's maxObstacleHeight plus the margin
C19_FlyYFromDestination ==
    lastOp.kind = "find" =>
        \A k \in 1 .. Len(lastOp.extracted) :
            navGrid.grid[lastOp.extracted[k]].flyY
                = PlannedAltitude(navGrid, lastOp.extracted[k], lastOp.endPos.y)

\* C19: after a search the flyY of the start cell, the first cell expanded,
\* is the greater of the height of the start position and the cell's
\* maxObstacleHeight plus the margin; the flyY of every other expanded cell
\* is the greater of the destination's height and the cell's
\* maxObstacleHeight plus the margin
C19_FlyYOfExpandedCells ==
    lastOp.kind = "find" =>
        \A k \in 1 .. Len(lastOp.extracted) :
            navGrid.grid[lastOp.extracted[k]].flyY
                = PlannedAltitude(navGrid, lastOp.extracted[k],
                                  IF k = 1 THEN lastOp.startPos.y ELSE lastOp.endPos.y)

\* a search from a position above the destination and above what the start
\* cell needs has expanded several cells and found a path
C19_Witness ==
    /\ lastOp.kind = "find"
    /\ lastOp.path # null
    /\ Len(lastOp.extracted) > 2
    /\ lastOp.startPos.y > lastOp.endPos.y
    /\ lastOp.startPos.y > navGrid.grid[lastOp.extracted[1]].maxObstacleHeight
                              + DefaultSafetyMargin
    /\ navGrid.grid[lastOp.extracted[1]].flyY = lastOp.startPos.y
    /\ navGrid.grid[lastOp.extracted[2]].flyY = lastOp.endPos.y

\* the grid ng with the occupancy and heights it has and scratch fields that
\* no search has touched since they were cleared
WithoutScratch(ng) ==
    [ng EXCEPT !.grid = [ c \in Cells(ng) |->
        [ng.grid[c] EXCEPT !.gCost = Infinity, !.hCost = Infinity,
                           !.fCost = Infinity, !.parent = null, !.flyY = 0] ]]

\* C20: what findPath returned, on a grid that may carry the scratch values
\* of any earlier searches, is what the same call returns on the grid with
\* the same occupancy and heights and cleared scratch fields: the same
\* points, after expanding the same cells in the same order
C20_ResultIgnoresScratch ==
    lastOp.kind = "find" =>
        \E fresh \in { findPath(WithoutScratch(navGrid), lastOp.startPos, lastOp.endPos,
                                 DefaultSafetyMargin, DefaultAltitudePenalty) } :
            /\ lastOp.path = fresh.path
            /\ lastOp.extracted = fresh.extracted

\* a search on a grid that carried the scratch values of an earlier search
\* has found a path of several points
C20_Witness ==
    /\ lastOp.kind = "find"
    /\ lastOp.staleScratch
    /\ lastOp.path # null
    /\ Len(lastOp.path) > 2

\* C21: a drone that is not in autonomous mode holds no path and no progress
\* index, whether it never was autonomous, was toggled out of the mode or
\* left it on completing its mission
C21_ManualHoldsNoPath ==
    \A k \in 1 .. Len(manager.drones) :
        ~manager.drones[k].isAutonomous =>
            /\ manager.drones[k].currentPath = null
            /\ manager.drones[k].currentTargetPathNodeIndex = -1

\* a drone has left the autonomous mode by itself at the end of its mission
C21_Witness ==
    \E k \in 1 .. Len(manager.drones) :
        /\ ~manager.drones[k].isAutonomous
        /\ Len(manager.drones[k].waypoints) > 0
        /\ manager.drones[k].currentWaypointIndex = Len(manager.drones[k].waypoints)

\* a drone with a mission under way has been toggled out of the autonomous mode
C21_WitnessToggledOff ==
    \E k \in 1 .. Len(manager.drones) :
        /\ ~manager.drones[k].isAutonomous
        /\ Len(manager.drones[k].waypoints) > 0
        /\ manager.drones[k].currentWaypointIndex < Len(manager.drones[k].waypoints)
        /\ manager.drones[k].pathSearches > 0

\* the drone d, autonomous and on a path, has become the drone after in a
\* tick of its own: if it ended the tick within the arrival threshold of the
\* node it was heading for, it went on by one node or, from the last node of
\* the path, by one waypoint, dropping the path and leaving the autonomous
\* mode when that was the last waypoint; otherwise it kept node, path and
\* waypoint
ProgressByOne(d, after) ==
    IF distanceTo(after.physics.position, d.currentPath[d.currentTargetPathNodeIndex + 1])
          < autonomousTargetReachedThreshold
    THEN IF d.currentTargetPathNodeIndex + 1 < Len(d.currentPath)
         THEN /\ after.currentTargetPathNodeIndex = d.currentTargetPathNodeIndex + 1
              /\ after.currentPath = d.currentPath
              /\ after.currentWaypointIndex = d.currentWaypointIndex
              /\ after.isAutonomous
         ELSE /\ after.currentWaypointIndex = d.currentWaypointIndex + 1
              /\ after.currentPath = null
              /\ after.currentTargetPathNodeIndex = -1
              /\ after.isAutonomous <=> d.currentWaypointIndex + 1 < Len(d.waypoints)
    ELSE /\ after.currentTargetPathNodeIndex = d.currentTargetPathNodeIndex
         /\ after.currentPath = d.currentPath
         /\ after.currentWaypointIndex = d.currentWaypointIndex
         /\ after.isAutonomous

\* the drone d, autonomous with a waypoint ahead and no path, has planned to
\* that waypoint in the tick that made it the drone after
PlansToNextWaypoint(d, after) ==
    /\ after.pathSearches = d.pathSearches + 1
    /\ after.currentWaypointIndex \in { d.currentWaypointIndex, d.currentWaypointIndex + 1 }

\* C22: in a frame that assigns no waypoints (the N key is not newly
\* pressed) every drone keeps its waypoints, and its waypoint index stays or
\* grows by one; a flying autonomous drone that gets its own tick (it is the
\* active drone or the formation is off) and is on a path progresses by one
\* node or one waypoint exactly on arrival, leaving the mode at the end of
\* the last waypoint; and one that has a waypoint ahead and no path plans
\* to that waypoint
C22_ProgressInOrder ==
    [][ ( /\ frames' = frames + 1
          /\ ~(lastNKeyState' /\ ~lastNKeyState)
          /\ Len(manager'.drones) = Len(manager.drones) )
        => \A k \in 1 .. Len(manager.drones) :
             /\ manager'.drones[k].waypoints = manager.drones[k].waypoints
             /\ manager'.drones[k].currentWaypointIndex
                   \in { manager.drones[k].currentWaypointIndex,
                         manager.drones[k].currentWaypointIndex + 1 }
             /\ ( /\ manager.drones[k].isAutonomous
                  /\ manager.drones[k].isFlying
                  /\ HasPendingWaypoint(manager.drones[k])
                  /\ (manager'.activeDroneIndex = k - 1 \/ ~manager'.formationMode) )
                => IF /\ manager.drones[k].currentPath # null
                      /\ manager.drones[k].currentTargetPathNodeIndex >= 0
                   THEN ProgressByOne(manager.drones[k], manager'.drones[k])
                   ELSE PlansToNextWaypoint(manager.drones[k], manager'.drones[k]) ]_vars

\* a drone has planned to each of its waypoints in turn, reached the last
\* one and left the autonomous mode
C22_Witness ==
    \E k \in 1 .. Len(manager.drones) :
        /\ ~manager.drones[k].isAutonomous
        /\ Len(manager.drones[k].waypoints) = Len(testWaypoints)
        /\ manager.drones[k].currentWaypointIndex = Len(testWaypoints)
        /\ manager.drones[k].pathSearches >= Len(testWaypoints)
        /\ ~manager.drones[k].lastSearchFailed

\* the bounding box of the drone d, where the renderer has put its model,
\* intersects the bounding box of an obstacle
Collides(d) ==
    \E o \in 1 .. Len(collidableObjects) :
        intersectsBox(droneBoundingBox(d), collidableObjects[o])

\* C23: a frame that a flying drone, not crashed, starts with its bounding
\* box intersecting that of an obstacle leaves the drone crashed and without
\* horizontal velocity, in manual mode, in autonomous mode and as a follower
\* driven to its formation target
C23_CollisionCrashes ==
    [][ \A k \in 1 .. Len(manager.drones) :
          ( /\ frames' = frames + 1
            /\ k <= Len(manager'.drones)
            /\ manager.drones[k].isFlying
            /\ ~manager.drones[k].physics.crashed
            /\ Collides(manager.drones[k]) )
          => /\ manager'.drones[k].physics.crashed
             /\ manager'.drones[k].physics.velocity.x = 0
             /\ manager'.drones[k].physics.velocity.z = 0 ]_vars

\* a follower has been driven to its formation target with its bounding box
\* in an obstacle's and flies on, not crashed
C23_Witness ==
    /\ manager.formationMode
    /\ \E k \in 1 .. Len(manager.drones) :
          /\ k - 1 # manager.activeDroneIndex
          /\ manager.drones[k].isFlying
          /\ manager.drones[k].physics.inFormation
          /\ ~manager.drones[k].physics.crashed
          /\ Collides(manager.drones[k])
          /\ intersectsBox(droneBoundingBox(render(manager.drones[k])), collidableObjects[1])

\* C23 for the drones that the frame updates by Drone.update: the active
\* drone, and every drone when the formation is off
C23_CollisionCrashesOutsideFormation ==
    [][ \A k \in 1 .. Len(manager.drones) :
          ( /\ frames' = frames + 1
            /\ k <= Len(manager'.drones)
            /\ manager.drones[k].isFlying
            /\ ~manager.drones[k].physics.crashed
            /\ Collides(manager.drones[k])
            /\ (manager'.activeDroneIndex = k - 1 \/ ~manager'.formationMode) )
          => /\ manager'.drones[k].physics.crashed
             /\ manager'.drones[k].physics.velocity.x = 0
             /\ manager'.drones[k].physics.velocity.z = 0 ]_vars

\* C24: no drone is autonomous and in formation at once
C24_NotAutonomousInFormation ==
    \A k \in 1 .. Len(manager.drones) :
        ~(manager.drones[k].isAutonomous /\ manager.drones[k].physics.inFormation)

\* a drone that was made autonomous as the active drone has become a
\* follower and has been driven to its formation target, still autonomous
C24_Witness ==
    /\ manager.formationMode
    /\ \E k \in 1 .. Len(manager.drones) :
          /\ k - 1 # manager.activeDroneIndex
          /\ manager.drones[k].isFlying
          /\ manager.drones[k].isAutonomous
          /\ manager.drones[k].physics.inFormation
          /\ manager.drones[k].pathSearches > 0

\* C24 for the active drone of the frames of animate
C24_ActiveNotAutonomousInFormation ==
    \A k \in 1 .. Len(manager.drones) :
        k - 1 = manager.activeDroneIndex =>
            ~(manager.drones[k].isAutonomous /\ manager.drones[k].physics.inFormation)

\* the manager in line formation with a leader and at least one follower
InLineFormation(m) ==
    /\ m.formationMode /\ m.formationPattern = "line"
    /\ Len(m.drones) > 1
    /\ m.activeDroneIndex >= 0 /\ m.activeDroneIndex < Len(m.drones)

\* the forward direction of a drone of heading rotation, the direction the
\* W key pushes it: (sin, cos) in (x, z), in thousandths
Forward(rotation) == [x |-> SinDeg(Deg(rotation)), z |-> CosDeg(Deg(rotation))]

\* the point at the distance length behind a drone at position with the
\* heading rotation
Behind(position, rotation, length) ==
    Vector3(position.x - Trunc(length * Forward(rotation).x, 1000),
            position.y,
            position.z - Trunc(length * Forward(rotation).z, 1000))

\* C25: in line formation the target of the r-th follower (r = 1, 2, ...)
\* lies spacing * r straight behind the leader, against the leader's forward
\* direction, at the leader's height, whatever the leader's heading
C25_LineTargetsBehindLeader ==
    InLineFormation(manager) =>
        \A r \in 1 .. Len(manager.drones) - 1 :
            \E leader \in { manager.drones[manager.activeDroneIndex + 1].physics } :
            \E target \in { _calculateFormationPositions(manager)[r].position } :
            \E behind \in { Behind(leader.position, leader.rotation,
                                    manager.formationSpacing * r * Unit) } :
                /\ Abs(target.x - behind.x) <= 1
                /\ Abs(target.z - behind.z) <= 1
                /\ target.y = behind.y

\* line formation behind a leader that has turned away from the z axis: the
\* target of the first follower lies on the other side of the leader in x
\* than the point behind the leader
C25_Witness ==
    /\ InLineFormation(manager)
    /\ \E leader \in { manager.drones[manager.activeDroneIndex + 1].physics } :
       \E target \in { _calculateFormationPositions(manager)[1].position } :
       \E behind \in { Behind(leader.position, leader.rotation,
                               manager.formationSpacing * Unit) } :
           /\ Forward(leader.rotation).x # 0
           /\ (target.x - leader.position.x) * (behind.x - leader.position.x) < 0
           /\ target.z = behind.z

\* C25 for a leader whose heading is a multiple of 180 degrees
C25_LineTargetsBehindStraightLeader ==
    ( /\ InLineFormation(manager)
      /\ Forward(manager.drones[manager.activeDroneIndex + 1].physics.rotation).x = 0 )
    => C25_LineTargetsBehindLeader

\* no element occurs twice in the sequence seq
NoRepetition(seq) == \A i, j \in 1 .. Len(seq) : seq[i] = seq[j] => i = j

\* C26: a findPath call that has returned, with a path or with none, has
\* taken every cell from the open set at most once, and so has gone through
\* its loop at most gridCellsX * gridCellsZ times
C26_EachCellExtractedOnce ==
    lastOp.kind = "find" =>
        /\ NoRepetition(lastOp.extracted)
        /\ Range(lastOp.extracted) \subseteq Cells(navGrid)
        /\ Len(lastOp.extracted) <= navGrid.gridCellsX * navGrid.gridCellsZ

\* a search has emptied its open set without reaching the end cell, after
\* taking several cells from it
C26_Witness ==
    /\ lastOp.kind = "find"
    /\ lastOp.path = null
    /\ Len(lastOp.extracted) > 2
    /\ Usable(navGrid, lastOp.endPos)
    /\ CellAt(navGrid, lastOp.endPos) \notin Range(lastOp.extracted)

\* C26 inside the loop: while a search is under way no cell is in the open
\* set twice, no closed cell is in the open set, and every cell taken from
\* the open set so far was taken once
C26_FrontierWithoutRepetition ==
    search.active =>
        /\ NoRepetition(search.st.openSet)
        /\ Range(search.st.openSet) \cap search.st.closedSet = {}
        /\ NoRepetition(search.st.extracted)
        /\ Len(search.st.extracted) <= navGrid.gridCellsX * navGrid.gridCellsZ

\* the frame input with the R key down and no other key
ResetFrame == FrameInput({"r"}, 100, 0)

\* the step is a frame of animate with the R key down
IsResetFrame ==
    /\ frames' = frames + 1
    /\ ~lastNKeyState'
    /\ manager' = animate(manager, navGrid, lastNKeyState, ResetFrame.delta, ResetFrame.keys,
                           ResetFrame.hoverOscillation, collidableObjects).m

\* the physics state p is that of a drone after reset(): not crashed,
\* without velocity, heading and tilt
IsReset(p) ==
    /\ ~p.crashed
    /\ p.velocity = Vector3(0, 0, 0)
    /\ p.rotation = 0
    /\ p.tilt = [x |-> 0, z |-> 0]

\* the drone that receives the keys of the frame: the active drone, flying
\* and under manual control
Piloted(m, k) ==
    /\ k - 1 = m.activeDroneIndex
    /\ m.drones[k].isFlying
    /\ ~m.drones[k].isAutonomous

\* C27: a frame with the R key down leaves the flying, non-autonomous drone
\* that receives the key not crashed, with velocity, heading and tilt zero,
\* also when the drone was crashed at the start of the frame
C27_ResetClearsCrash ==
    [][ IsResetFrame =>
          \A k \in 1 .. Len(manager.drones) :
              Piloted(manager, k) => IsReset(manager'.drones[k].physics) ]_vars

\* the drone that receives the keys is flying, under manual control and
\* crashed, and has been falling for a frame at least
C27_Witness ==
    \E k \in 1 .. Len(manager.drones) :
        /\ Piloted(manager, k)
        /\ manager.drones[k].physics.crashed
        /\ manager.drones[k].physics.velocity.y < 0

\* C27 for a drone that starts the frame not crashed and clear of the
\* obstacles
C27_ResetWhenNotCrashed ==
    [][ IsResetFrame =>
          \A k \in 1 .. Len(manager.drones) :
              ( /\ Piloted(manager, k)
                /\ ~manager.drones[k].physics.crashed
                /\ ~Collides(manager.drones[k]) )
              => IsReset(manager'.drones[k].physics) ]_vars

\* activeDroneIndex is -1 when the fleet is empty and the index of a drone
\* of the fleet otherwise
ActiveIndexValid(m) ==
    IF Len(m.drones) = 0
    THEN m.activeDroneIndex = -1
    ELSE m.activeDroneIndex \in 0 .. Len(m.drones) - 1

\* the drones that carry the active marker (renderer.isActive), by position
\* in the fleet
Marked(m) == { k \in 1 .. Len(m.drones) : m.drones[k].renderer.isActive }

\* the marker is on the drone at activeDroneIndex and on no other
MarkerOnActive(m) ==
    Marked(m) = { k \in 1 .. Len(m.drones) : k - 1 = m.activeDroneIndex }

\* C28: after any sequence of addDrone, removeDrone, setActiveDrone and
\* updates, activeDroneIndex is -1 exactly when the fleet is empty and a
\* valid index otherwise, and the drone at activeDroneIndex, and no other,
\* carries the active marker
C28_ActiveDesignationConsistent ==
    /\ ActiveIndexValid(manager)
    /\ MarkerOnActive(manager)

\* the active drone has just been removed from a fleet of several
C28_Witness ==
    /\ lastOp.kind = "removeDrone"
    /\ Len(manager.drones) > 0
    /\ Marked(manager) = {}

\* the part of C28 about the index alone
C28_ActiveIndexValid == ActiveIndexValid(manager)

\* the part of C28 about the marker: never more than one drone carries it,
\* and a drone that carries it is the one at activeDroneIndex
C28_AtMostTheActiveMarked ==
    \A k \in Marked(manager) : k - 1 = manager.activeDroneIndex

\* the step is removeDrone(index) for a drone other than the active one
IsRemovalOfOther ==
    \E index \in 0 .. Len(manager.drones) - 1 :
        /\ index # manager.activeDroneIndex
        /\ manager' = removeDrone(manager, index)
        /\ lastOp' = Called("removeDrone")

\* the part of C28 about removals: removing a drone that is not the active
\* one leaves the same drone active
C28_RemoveOtherKeepsActive ==
    [][ (IsRemovalOfOther /\ manager.activeDroneIndex >= 0) =>
          /\ manager'.activeDroneIndex \in 0 .. Len(manager'.drones) - 1
          /\ manager'.drones[manager'.activeDroneIndex + 1]
                = manager.drones[manager.activeDroneIndex + 1] ]_vars

\* the path of the drone d and the index of its target node agree: both
\* absent, or the index points at a node of the path
PathAndIndexAgree(d) ==
    /\ d.currentPath # null <=> d.currentTargetPathNodeIndex # -1
    /\ d.currentPath # null =>
          /\ d.currentTargetPathNodeIndex >= 0
          /\ d.currentTargetPathNodeIndex < Len(d.currentPath)

\* C29: in every reachable state, for every drone, currentPath is present
\* exactly when currentTargetPathNodeIndex is not -1, and when a path is
\* present the index is at least 0 and less than the length of the path
C29_PathAndIndexConsistent ==
    \A k \in 1 .. Len(manager.drones) : PathAndIndexAgree(manager.drones[k])

\* a drone has reached the end of a path, which left it without a path and
\* with a waypoint still to go to
C29_Witness ==
    \E k \in 1 .. Len(manager.drones) :
        /\ manager.drones[k].isAutonomous
        /\ manager.drones[k].currentWaypointIndex > 0
        /\ manager.drones[k].currentWaypointIndex < Len(manager.drones[k].waypoints)
        /\ manager.drones[k].currentPath = null

\* a drone is on its way along a path, past the first node of it
C29_WitnessOnPath ==
    \E k \in 1 .. Len(manager.drones) :
        /\ manager.drones[k].currentPath # null
        /\ manager.drones[k].currentTargetPathNodeIndex > 0

\* the altitude of a flight to endWorldPos over free ground
CruiseAltitude(ng, endWorldPos) ==
    Max(endWorldPos.y, ng.groundLevel + DefaultSafetyMargin)

\* world positions below, at and above the height the safety margin asks for
\* over free ground
AltitudePoints ==
    { Vector3(-2, 0, -2), Vector3(2, 1, 2), Vector3(0, 6, -2), Vector3(2, 0, -2) }

\* Pathfinder.findPath(navGrid, startWorldPos, endWorldPos) between positions
\* of different heights
FindPathAtAltitudes ==
    \E startWorldPos \in AltitudePoints, endWorldPos \in AltitudePoints :
        \E r \in { findPath(navGrid, startWorldPos, endWorldPos,
                             DefaultSafetyMargin, DefaultAltitudePenalty) } :
            /\ navGrid' = r.ng
            /\ lastOp' = [NoOp EXCEPT !.kind = "find", !.startPos = startWorldPos,
                                      !.endPos = endWorldPos, !.path = r.path,
                                      !.extracted = r.extracted,
                                      !.staleScratch = HasScratch(navGrid)]
            /\ UNCHANGED <<search, fleetVars>>

\* the grid and the pathfinder, with flights at several heights
NextAltitude == Populate \/ FindPathAtAltitudes

SpecAltitude == InitGrid /\ [][NextAltitude]_vars

\* C30: on a grid that populateFromObjects alone has marked, every free cell
\* has maxObstacleHeight = groundLevel, and every point of a path that
\* findPath returned has the altitude max(endWorldPos.y, groundLevel +
\* safety margin)
C30_PathAtOneAltitude ==
    /\ \A c \in Cells(navGrid) :
          ~navGrid.grid[c].isObstacle => navGrid.grid[c].maxObstacleHeight = navGrid.groundLevel
    /\ (lastOp.kind = "find" /\ lastOp.path # null) =>
          \A k \in 1 .. Len(lastOp.path) :
              lastOp.path[k].y = CruiseAltitude(navGrid, lastOp.endPos)

\* a path of several points has been found on a grid with obstacles higher
\* than the path, from a start above the altitude of the path
C30_Witness ==
    /\ lastOp.kind = "find"
    /\ lastOp.path # null
    /\ Len(lastOp.path) > 2
    /\ lastOp.startPos.y > CruiseAltitude(navGrid, lastOp.endPos)
    /\ \E c \in Cells(navGrid) :
          /\ navGrid.grid[c].isObstacle
          /\ navGrid.grid[c].maxObstacleHeight > CruiseAltitude(navGrid, lastOp.endPos)

\* a path has been found to a destination lower than the safety margin over
\* the ground, and starts at the height of the margin
C30_WitnessBelowMargin ==
    /\ lastOp.kind = "find"
    /\ lastOp.path # null
    /\ Len(lastOp.path) > 1
    /\ lastOp.endPos.y < navGrid.groundLevel + DefaultSafetyMargin
    /\ lastOp.path[1].y = navGrid.groundLevel + DefaultSafetyMargin
====
